---- MODULE Spec2Model ----
(***************************************************************************)
(* Verification model of the chat-with-PDF backend:                        *)
(*   EmbeddingService.createChunks / chunkPage / chunkSection  (chunking)  *)
(*   ChatService.detectPageSpecificQuery / chatWithPDF         (routing)   *)
(*   ChatService.generateResponse / generateFollowUpQuestions /            *)
(*   analyzeDocument / improveSection                  (model fallback)    *)
(*   VectorDBService.storeEmbeddings / searchByFileId /                    *)
(*   searchByFileIdAndPage / searchSimilar                 (vector index)  *)
(*   EmbeddingService.generateEmbeddings / getBatchEmbeddings,             *)
(*   PDFService.processPDF, POST /api/pdf/upload and the abort detection   *)
(*   middleware                                        (upload pipeline)   *)
(***************************************************************************)
EXTENDS Integers, Sequences, FiniteSets, TLC

(***************************************************************************)
(* Bounds of the exploration.                                              *)
(***************************************************************************)
\* largest number of words of a page or section explored by ChunkSpec
MaxWords == 1000
\* longest query (in tokens) explored by DetectSpec
MaxQueryLen == 5
\* number of uploads explored by Spec
MaxUploads == 2
\* number of words of the long page of the uploaded documents
LongPageWords == 520

(***************************************************************************)
(* Program constants.                                                      *)
(***************************************************************************)
maxChunkSize == 512
overlapSize == 50
\* a metadata field that the code never sets (JavaScript undefined)
Undefined == -1
\* JavaScript null (pageNumber of a query that names no page)
Null == -2

VARIABLES
  unit,        \* ChunkSpec: the page or section handed to the chunker
  unitChunks,  \* ChunkSpec: the chunks chunkPage / chunkSection returned
  unitPc,      \* ChunkSpec: "input" before the call, "chunked" after
  dQuery,      \* DetectSpec: the query handed to detectPageSpecificQuery
  dResult,     \* DetectSpec: what detectPageSpecificQuery returned
  dPc,         \* DetectSpec: "input" before the call, "detected" after
  points,      \* the vector index: the set of stored points
  uploads,     \* the number of documents uploaded so far (the last fileId)
  docs,        \* the structured document of every upload, by fileId
  req,         \* the request being served: operation and arguments
  pc,          \* where the request is: idle, request, race, body, done
  cand,        \* the loop index i over the candidate models (1-based)
  requested,   \* the candidates requested by this request, in order
  attempts,    \* the outcome of every finished attempt, in order
  calls,       \* the retrieval calls this request made, in order
  relevantChunks, \* the chunks the retrieval returned
  context,     \* the context block handed to the models
  result,      \* what the operation returned or raised
  timer,       \* the timer of the attempt in flight: off, armed, fired
  cDoc,        \* CreateSpec: the structured document handed to createChunks
  cOut,        \* CreateSpec: what createChunks returned or threw
  cPc,         \* CreateSpec: "input" before the call, "created" after
  sArgs,       \* SearchSpec: the arguments of searchSimilar
  sOut,        \* SearchSpec: what searchSimilar returned or threw
  sPc,         \* SearchSpec: "input" before the call, "searched" after
  uChunks,     \* PipelineSpec: the number of chunks of the uploaded document
  uPc,         \* PipelineSpec: the stage the upload request is at
  uBatch,      \* PipelineSpec: the loop index i of generateEmbeddings
  uEmbeddings, \* PipelineSpec: the embeddings array of generateEmbeddings
  uReplies,    \* PipelineSpec: how the capability answered each batch
  uChecks,     \* PipelineSpec: the signal checks passed so far, in order
  aborted,     \* PipelineSpec: req.abortController.signal.aborted
  connection,  \* PipelineSpec: the client connection: open, closed
  headersSent, \* PipelineSpec: res.headersSent
  responses,   \* PipelineSpec: the responses the handlers sent, in order
  uError,      \* PipelineSpec: the error the route's catch received
  upserted,    \* PipelineSpec: the points the upload upserted
  uTrace,      \* PipelineSpec: the requests, replies and delays of the
               \* embedding loop, in order
  collection,  \* CollectionSpec: the collection as the index holds it
  inits,       \* CollectionSpec: every initializeCollection call: position
               \* and outcome
  jobs,        \* IndexSpec: every upload request in progress: position,
               \* fileId, document and embedded chunks
  served,      \* IndexSpec: the last search or delete the index served
  mArgs,       \* RouteSpec: the HTTP request being handled
  mRun,        \* RouteSpec: the handler's position, candidate, message list
               \* and response status
  mSent,       \* RouteSpec: the calls to external services made so far
  late,        \* LateSpec: the candidates whose response arrived after their
               \* timer had fired
  middleware,  \* SignalSpec: per request in flight, the state the abort
               \* detection middleware keeps (controller, responseSent,
               \* timeout) and the response's headersSent / connection
  pdfData,     \* ParseSpec: what pdfParse resolved with (text, numpages,
               \* pages)
  parsedData,  \* ParseSpec: what parsePDF returned, or that it threw
  rawText,     \* SectionSpec: the text handed to identifySections
  identified   \* SectionSpec: the sections identifySections returned

chunkVars  == <<unit, unitChunks, unitPc>>
detectVars == <<dQuery, dResult, dPc>>
storeVars  == <<points, uploads, docs>>
reqVars    == <<req, pc, cand, requested, attempts, calls, relevantChunks,
               context, result, timer>>
createVars == <<cDoc, cOut, cPc>>
searchVars == <<sArgs, sOut, sPc>>
uploadVars == <<uChunks, uPc, uBatch, uEmbeddings, uReplies, uChecks, aborted,
                connection, headersSent, responses, uError, upserted, uTrace>>
pipelineVars == <<createVars, searchVars, uploadVars>>
collectionVars == <<collection, inits>>
messageVars == <<mArgs, mRun, mSent>>
indexVars == <<jobs, served>>
parseVars == <<pdfData, parsedData, rawText, identified>>
otherVars == <<late, middleware, parseVars>>
serviceVars == <<collectionVars, indexVars, messageVars, otherVars>>
vars == <<chunkVars, detectVars, storeVars, reqVars, pipelineVars, serviceVars>>

Min(a, b) == IF a < b THEN a ELSE b

(***************************************************************************)
(* The values the variables of a component hold while a specification      *)
(* does not exercise that component.                                       *)
(***************************************************************************)
NoUnit == [kind |-> "none"]

NoResult == [isPageSpecific |-> FALSE, pageNumber |-> Null]

ChunkIdle ==
  /\ unit = NoUnit
  /\ unitChunks = <<>>
  /\ unitPc = "idle"

DetectIdle ==
  /\ dQuery = <<>>
  /\ dResult = NoResult
  /\ dPc = "idle"

\* fileId = null
NoFile == 0

NoRequest == [op |-> "none", query |-> <<>>, fileId |-> NoFile, sectionName |-> <<>>]

NoContext == [header |-> "none", page |-> Undefined, items |-> <<>>, fileId |-> NoFile]

NoError == [kind |-> "none", model |-> 0, wrapped |-> FALSE]

Pending ==
  [status |-> "pending", value |-> <<>>, model |-> 0, error |-> NoError,
   chunksUsed |-> Undefined, isPageSpecific |-> FALSE, targetPage |-> Null]

RequestIdle ==
  /\ req = NoRequest
  /\ pc = "idle"
  /\ cand = 0
  /\ requested = <<>>
  /\ attempts = <<>>
  /\ calls = <<>>
  /\ relevantChunks = <<>>
  /\ context = NoContext
  /\ result = Pending
  /\ timer = "off"

StoreIdle ==
  /\ points = {}
  /\ uploads = 0
  /\ docs = <<>>

NoDocument == [documentType |-> "none"]

NoOutcome == [status |-> "none", value |-> <<>>]

CreateIdle ==
  /\ cDoc = NoDocument
  /\ cOut = NoOutcome
  /\ cPc = "idle"

SearchIdle ==
  /\ sArgs = <<>>
  /\ sOut = NoOutcome
  /\ sPc = "idle"

UploadIdle ==
  /\ uChunks = 0
  /\ uPc = "idle"
  /\ uBatch = 0
  /\ uEmbeddings = <<>>
  /\ uReplies = <<>>
  /\ uChecks = <<>>
  /\ aborted = FALSE
  /\ connection = "open"
  /\ headersSent = FALSE
  /\ responses = <<>>
  /\ uError = NoOutcome
  /\ upserted = {}
  /\ uTrace = <<>>

\* no collection in the index
NoCollection == [exists |-> FALSE, size |-> 0, distance |-> "none", indexes |-> {}]

CollectionIdle ==
  /\ collection = NoCollection
  /\ inits = <<>>

\* no search or delete has been served
NoOp == [n |-> 0, call |-> "none"]

JobsIdle ==
  /\ jobs = <<>>
  /\ served = NoOp

MessagesIdle ==
  /\ mArgs = <<>>
  /\ mRun = <<>>
  /\ mSent = <<>>

LateIdle == late = {}

MiddlewareIdle == middleware = <<>>

NotCalled == [status |-> "none"]

ParseIdle ==
  /\ pdfData = <<>>
  /\ parsedData = NotCalled

SectionIdle ==
  /\ rawText = <<>>
  /\ identified = NotCalled

OtherIdle == LateIdle /\ MiddlewareIdle /\ ParseIdle /\ SectionIdle

ServiceIdle == CollectionIdle /\ JobsIdle /\ MessagesIdle /\ OtherIdle

PipelineIdle == CreateIdle /\ SearchIdle /\ UploadIdle

(***************************************************************************)
(* Text.  A text is whitespace-separated words; what the chunker observes  *)
(* of it is whether it starts with whitespace, how many words it has and   *)
(* whether it ends with whitespace.  Words are numbered 1..n in reading    *)
(* order; 0 is the empty string that String.split yields at a text         *)
(* boundary.                                                               *)
(***************************************************************************)
Text(lead, n, trail) == [lead |-> lead, n |-> n, trail |-> trail /\ n > 0]

\* content.split(/\s+/)
Split(text) ==
  (IF text.lead THEN <<0>> ELSE <<>>)
    \o (IF text.n = 0 THEN <<0>> ELSE [k \in 1..text.n |-> k])
    \o (IF text.trail /\ text.n > 0 THEN <<0>> ELSE <<>>)

\* text.trim() is a non-empty string
TrimNonEmpty(text) == text.n > 0

\* the string is truthy (not "")
Truthy(text) == text.lead \/ text.n > 0

RECURSIVE SumSeq(_)
SumSeq(s) == IF s = <<>> THEN 0 ELSE Head(s) + SumSeq(Tail(s))

\* section.content.join(" "): the lines are trimmed, non-empty lines
\* (PDFService.identifySections), given by their word counts
JoinLines(lines) == Text(FALSE, SumSeq(lines), FALSE)

(***************************************************************************)
(* EmbeddingService.chunkPage / chunkSection                               *)
(***************************************************************************)
\* words.slice(from, to) with 0-based from, exclusive to
Slice(words, from, to) == SubSeq(words, from + 1, Min(to, Len(words)))

\* a step that skips words between consecutive parts
ChunkStep_Gap == maxChunkSize + overlapSize

\* the loop increment: i += this.maxChunkSize - this.overlapSize
ChunkStep == maxChunkSize - overlapSize

\* the loop condition: i < words.length
ChunkLoopContinues(i, n) == i < n

\* a test that sends content of exactly maxChunkSize words to the split loop
FitsOneChunk_Strict(n) == n < maxChunkSize

\* the test for keeping content as one chunk: words.length <= this.maxChunkSize
FitsOneChunk(n) == n <= maxChunkSize

\* Math.floor(i / (this.maxChunkSize - this.overlapSize)) + 1
ChunkPartOf(i) == (i \div ChunkStep) + 1

\* the template strings `Page ${n}: ...`, `Page ${n} (Part ${k}): ...`,
\* `${title}: ...`, `${title} (Part ${k}): ...`, `Document Type: ${t}. ...`,
\* `Suggestions: ...`, `${Key}: ...` as the values they are built from
Content(kind, number, title, part, words, text) ==
  [kind |-> kind, number |-> number, title |-> title, part |-> part,
   words |-> words, text |-> text]

PagePart(page, pageIndex, words, i) ==
  LET chunkWords == Slice(words, i, i + maxChunkSize)
  IN [content  |-> Content("Page", page.pageNumber, <<>>, ChunkPartOf(i),
                           chunkWords, ""),
      metadata |-> [section |-> "page_content",
                    pageNumber |-> page.pageNumber,
                    pageIndex |-> pageIndex,
                    chunkType |-> "page",
                    chunkPart |-> ChunkPartOf(i),
                    wordCount |-> Len(chunkWords),
                    startWordIndex |-> i]]

RECURSIVE PageLoop(_, _, _, _, _)
PageLoop(page, pageIndex, words, i, chunks) ==
  IF ChunkLoopContinues(i, Len(words))
  THEN PageLoop(page, pageIndex, words, i + ChunkStep,
                Append(chunks, PagePart(page, pageIndex, words, i)))
  ELSE chunks

chunkPage(page, pageIndex) ==
  LET words == Split(page.text)
  IN IF FitsOneChunk(Len(words))
     THEN << [content  |-> Content("Page", page.pageNumber, <<>>, Undefined,
                                   words, ""),
              metadata |-> [section |-> "page_content",
                            pageNumber |-> page.pageNumber,
                            pageIndex |-> pageIndex,
                            wordCount |-> Len(words),
                            chunkType |-> "page"]] >>
     ELSE PageLoop(page, pageIndex, words, 0, <<>>)

SectionPart(section, sectionIndex, words, i) ==
  LET chunkWords == Slice(words, i, i + maxChunkSize)
  IN [content  |-> Content("Section", Undefined, section.title, ChunkPartOf(i),
                           chunkWords, ""),
      metadata |-> [section |-> "section_content",
                    sectionTitle |-> section.title,
                    sectionIndex |-> sectionIndex,
                    chunkType |-> "section",
                    chunkPart |-> ChunkPartOf(i),
                    wordCount |-> Len(chunkWords),
                    startWordIndex |-> i]]

RECURSIVE SectionLoop(_, _, _, _, _)
SectionLoop(section, sectionIndex, words, i, chunks) ==
  IF ChunkLoopContinues(i, Len(words))
  THEN SectionLoop(section, sectionIndex, words, i + ChunkStep,
                   Append(chunks, SectionPart(section, sectionIndex, words, i)))
  ELSE chunks

chunkSection(section, sectionIndex) ==
  LET words == Split(JoinLines(section.content))
  IN IF FitsOneChunk(Len(words))
     THEN << [content  |-> Content("Section", Undefined, section.title,
                                   Undefined, words, ""),
              metadata |-> [section |-> "section_content",
                            sectionTitle |-> section.title,
                            sectionIndex |-> sectionIndex,
                            wordCount |-> Len(words),
                            chunkType |-> "section"]] >>
     ELSE SectionLoop(section, sectionIndex, words, 0, <<>>)

(***************************************************************************)
(* EmbeddingService.createChunks / chunkAndEmbed                           *)
(***************************************************************************)
\* the words 1..n of a generated text of n words
Words(n) == [k \in 1..n |-> k]

RECURSIVE PagesLoop_Backwards(_, _)
RECURSIVE PagesLoop(_, _)
RECURSIVE SectionsLoop(_, _)

\* a loop that emits the pages' chunks from the last page to the first
PagesLoop_Backwards(pages, k) ==
  IF k > Len(pages) THEN <<>>
  ELSE PagesLoop_Backwards(pages, k + 1)
       \o (IF Truthy(pages[k].text) /\ TrimNonEmpty(pages[k].text)
           THEN chunkPage(pages[k], k - 1) ELSE <<>>)

\* structuredData.pages.forEach((page, pageIndex) => ...), pageIndex 0-based
PagesLoop(pages, k) ==
  IF k > Len(pages) THEN <<>>
  ELSE (IF Truthy(pages[k].text) /\ TrimNonEmpty(pages[k].text)
        THEN chunkPage(pages[k], k - 1) ELSE <<>>)
       \o PagesLoop(pages, k + 1)

\* structuredData.sections.forEach((section, sectionIndex) => ...)
SectionsLoop(sections, k) ==
  IF k > Len(sections) THEN <<>>
  ELSE chunkSection(sections[k], k - 1) \o SectionsLoop(sections, k + 1)

\* structuredData has no sections property: `structuredData.sections.length`
\* (the document-info chunk) raises a TypeError
createChunksThrows(structuredData) == "sections" \notin DOMAIN structuredData

\* The value createChunks returns when it does not throw.  A document gives
\* its summary by its number of words (0: no summary), its suggestions by
\* their numbers of words, its explanations by key and number of words; the
\* words of a chunk are those that follow its label.
createChunks(structuredData) ==
  << [content  |-> Content("Document Type", Undefined, <<>>, Undefined,
                           Words(1 + structuredData.summary),
                           structuredData.documentType),
      metadata |-> [section |-> "document_info",
                    documentType |-> structuredData.documentType,
                    totalSections |-> Len(structuredData.sections),
                    totalPages |-> Len(structuredData.pages)]] >>
  \o PagesLoop(structuredData.pages, 1)
  \o SectionsLoop(structuredData.sections, 1)
  \o (IF Len(structuredData.suggestions) > 0
      THEN << [content  |-> Content("Suggestions", Undefined, <<>>, Undefined,
                                    Words(SumSeq(structuredData.suggestions)),
                                    ""),
               metadata |-> [section |-> "suggestions",
                             documentType |-> structuredData.documentType]] >>
      ELSE <<>>)
  \o [k \in 1..Len(structuredData.explanations) |->
        [content  |-> Content("Explanation", Undefined, <<>>, Undefined,
                              Words(structuredData.explanations[k].words),
                              structuredData.explanations[k].key),
         metadata |-> [section |-> "explanations",
                       explanationType |-> structuredData.explanations[k].key,
                       documentType |-> structuredData.documentType]]]

\* a metadata field, or the given stand-in for undefined when the chunk's
\* metadata has no such field
Field(metadata, name, undefined) ==
  IF name \in DOMAIN metadata THEN metadata[name] ELSE undefined

\* chunkAndEmbed: { id, content, metadata: {...chunk.metadata, fileId,
\* chunkIndex, embeddingModel} } for each chunk, chunkIndex 0-based.
\* The id (a fresh uuid) is given by the upload and the chunk position.
chunkAndEmbed(structuredData, fileId) ==
  LET chunks == createChunks(structuredData)
  IN [k \in 1..Len(chunks) |->
        [id       |-> <<fileId, k - 1>>,
         content  |-> chunks[k].content,
         metadata |-> [name \in DOMAIN chunks[k].metadata
                                  \cup {"fileId", "chunkIndex", "embeddingModel"} |->
                         CASE name = "fileId" -> fileId
                           [] name = "chunkIndex" -> k - 1
                           [] name = "embeddingModel" -> "all-MiniLM-L6-v2"
                           [] OTHER -> chunks[k].metadata[name]]]]

(***************************************************************************)
(* VectorDBService: storeEmbeddings, searchByFileIdAndPage, searchByFileId *)
(* against the vector index (the set of stored points).                    *)
(***************************************************************************)
\* the point storeEmbeddings builds for one embedded chunk
StoredPoint(embedding, uploadedAt) ==
  [id |-> embedding.id,
   payload |->
     [content        |-> embedding.content,
      fileId         |-> embedding.metadata.fileId,
      documentType   |-> Field(embedding.metadata, "documentType", "undefined"),
      section        |-> embedding.metadata.section,
      sectionTitle   |-> Field(embedding.metadata, "sectionTitle", <<>>),
      chunkIndex     |-> embedding.metadata.chunkIndex,
      wordCount      |-> Field(embedding.metadata, "wordCount", Undefined),
      embeddingModel |-> embedding.metadata.embeddingModel,
      uploadedAt     |-> uploadedAt,
      pageNumber     |-> Field(embedding.metadata, "pageNumber", Undefined),
      pageIndex      |-> Field(embedding.metadata, "pageIndex", Undefined),
      chunkType      |-> Field(embedding.metadata, "chunkType", "undefined"),
      chunkPart      |-> Field(embedding.metadata, "chunkPart", Undefined)]]

storeEmbeddings(embeddings, uploadedAt) ==
  { StoredPoint(embeddings[k], uploadedAt) : k \in 1..Len(embeddings) }

\* a filter that forgets the page condition
PageFilter_FileOnly(fileId, pageNumber, payload) == payload.fileId = fileId

\* filter = { must: [ fileId = fileId, pageNumber = pageNumber ] }
PageFilter(fileId, pageNumber, payload) ==
  payload.fileId = fileId /\ payload.pageNumber = pageNumber

\* filter = { must: [ fileId = fileId ] }
FileFilter(fileId, payload) == payload.fileId = fileId

\* the results a scroll with a limit can return for the matching points:
\* all of them when they fit the limit, any `limit` of them otherwise
ScrollResults(matching, limit) ==
  IF Cardinality(matching) <= limit THEN {matching}
  ELSE { pts \in SUBSET matching : Cardinality(pts) = limit }

RECURSIVE InIdOrder(_)
\* the points as the sequence a scroll returns them in (by point id)
InIdOrder(pts) ==
  IF pts = {} THEN <<>>
  ELSE LET first == CHOOSE p \in pts :
                      \A o \in pts : \/ p.id[1] < o.id[1]
                                     \/ p.id[1] = o.id[1] /\ p.id[2] <= o.id[2]
       IN <<first>> \o InIdOrder(pts \ {first})

\* scrollResults.points.map(point => ({ id, score: 1.0, content, metadata }))
ScrollHit(point) ==
  [id |-> point.id, score |-> 1, content |-> point.payload.content,
   metadata |-> [fileId |-> point.payload.fileId,
                 documentType |-> point.payload.documentType,
                 section |-> point.payload.section,
                 sectionTitle |-> point.payload.sectionTitle,
                 chunkIndex |-> point.payload.chunkIndex,
                 wordCount |-> point.payload.wordCount,
                 pageNumber |-> point.payload.pageNumber,
                 pageIndex |-> point.payload.pageIndex,
                 chunkType |-> point.payload.chunkType,
                 chunkPart |-> point.payload.chunkPart]]

ScrollHits(pts) ==
  LET ordered == InIdOrder(pts)
  IN [k \in 1..Len(ordered) |-> ScrollHit(ordered[k])]

\* results.map(result => ({ id, score, content, metadata })) of searchSimilar
SearchHit(point) ==
  [id |-> point.id, score |-> 1, content |-> point.payload.content,
   metadata |-> [fileId |-> point.payload.fileId,
                 documentType |-> point.payload.documentType,
                 section |-> point.payload.section,
                 sectionTitle |-> point.payload.sectionTitle,
                 chunkIndex |-> point.payload.chunkIndex,
                 wordCount |-> point.payload.wordCount]]

SearchHits(pts) ==
  LET ordered == InIdOrder(pts)
  IN [k \in 1..Len(ordered) |-> SearchHit(ordered[k])]

(***************************************************************************)
(* ChatService.detectPageSpecificQuery                                     *)
(*                                                                         *)
(* A query is a sequence of tokens: the literals the patterns look for     *)
(* ("page", "the", "number", an ordinal suffix), single digits, a          *)
(* whitespace character " ", and "x" for any other text.  "Page" and       *)
(* "The" are the capitalised literals.                                     *)
(***************************************************************************)
Digits == {"0", "1", "2", "3", "4", "5", "6", "7", "8", "9"}
OrdinalSuffixes == {"st", "nd", "rd", "th"}

IsDigit(t) == t \in Digits
IsSpace(t) == t = " "

DigitValue(t) ==
  CASE t = "0" -> 0 [] t = "1" -> 1 [] t = "2" -> 2 [] t = "3" -> 3
    [] t = "4" -> 4 [] t = "5" -> 5 [] t = "6" -> 6 [] t = "7" -> 7
    [] t = "8" -> 8 [] t = "9" -> 9

RECURSIVE parseInt(_)
\* parseInt of a non-empty run of digits
parseInt(ds) ==
  IF ds = <<>> THEN 0
  ELSE 10 * parseInt(SubSeq(ds, 1, Len(ds) - 1)) + DigitValue(ds[Len(ds)])

\* query.toLowerCase()
toLowerCase(q) ==
  [k \in 1..Len(q) |->
     CASE q[k] = "Page" -> "page" [] q[k] = "The" -> "the" [] OTHER -> q[k]]

\* the last position of the longest run of tokens satisfying P that starts
\* at position i (i - 1 when q[i] does not satisfy P): a greedy \s+ or \d+
RunEnd(q, i, P(_)) ==
  CHOOSE j \in (i - 1)..Len(q) :
    /\ \A m \in i..j : P(q[m])
    /\ j = Len(q) \/ ~P(q[j + 1])

At(q, i) == IF i \in 1..Len(q) THEN q[i] ELSE "<end>"

\* an optional ordinal suffix at position i: the position after it
AfterSuffix(q, i) == IF At(q, i) \in OrdinalSuffixes THEN i + 1 ELSE i

\* /page\s+(\d+)/ matched at position s: the captured digits, <<>> if the
\* pattern does not match there
Pattern1At(q, s) ==
  LET sp == RunEnd(q, s + 1, IsSpace)
      dg == RunEnd(q, sp + 1, IsDigit)
  IN IF At(q, s) = "page" /\ sp >= s + 1 /\ dg >= sp + 1
     THEN SubSeq(q, sp + 1, dg) ELSE <<>>

\* /the\s+(\d+)(?:st|nd|rd|th)?\s+page/
Pattern2At(q, s) ==
  LET sp  == RunEnd(q, s + 1, IsSpace)
      dg  == RunEnd(q, sp + 1, IsDigit)
      sx  == AfterSuffix(q, dg + 1)
      sp2 == RunEnd(q, sx, IsSpace)
  IN IF /\ At(q, s) = "the" /\ sp >= s + 1 /\ dg >= sp + 1
        /\ sp2 >= sx /\ At(q, sp2 + 1) = "page"
     THEN SubSeq(q, sp + 1, dg) ELSE <<>>

\* /page\s+number\s+(\d+)/
Pattern3At(q, s) ==
  LET sp  == RunEnd(q, s + 1, IsSpace)
      sp2 == RunEnd(q, sp + 2, IsSpace)
      dg  == RunEnd(q, sp2 + 1, IsDigit)
  IN IF /\ At(q, s) = "page" /\ sp >= s + 1 /\ At(q, sp + 1) = "number"
        /\ sp2 >= sp + 2 /\ dg >= sp2 + 1
     THEN SubSeq(q, sp2 + 1, dg) ELSE <<>>

\* /(\d+)(?:st|nd|rd|th)?\s+page/
Pattern4At(q, s) ==
  LET dg == RunEnd(q, s, IsDigit)
      sx == AfterSuffix(q, dg + 1)
      sp == RunEnd(q, sx, IsSpace)
  IN IF dg >= s /\ sp >= sx /\ At(q, sp + 1) = "page"
     THEN SubSeq(q, s, dg) ELSE <<>>

PatternAt(p, q, s) ==
  CASE p = 1 -> Pattern1At(q, s) [] p = 2 -> Pattern2At(q, s)
    [] p = 3 -> Pattern3At(q, s) [] p = 4 -> Pattern4At(q, s)

\* lowerQuery.match(pattern): the capture group of the leftmost match,
\* <<>> when there is no match (match === null)
Match(p, q) ==
  LET starts == { s \in 1..Len(q) : PatternAt(p, q, s) # <<>> }
  IN IF starts = {} THEN <<>>
     ELSE PatternAt(p, q, CHOOSE s \in starts : \A o \in starts : s <= o)

\* a page number test that lets page 0 through
AcceptsPage_AllowZero(pageNumber) == pageNumber >= 0

\* if (pageNumber > 0)
AcceptsPage(pageNumber) == pageNumber > 0

\* the order that tries the bare '<n> page' family first
pagePatterns_Reordered == <<4, 2, 3, 1>>

\* const pagePatterns = [ ... ]: the pattern families in array order
pagePatterns == <<1, 2, 3, 4>>

RECURSIVE DetectLoop(_, _)
\* for (const pattern of pagePatterns) { ... }
DetectLoop(lowerQuery, k) ==
  IF k > Len(pagePatterns)
  THEN [isPageSpecific |-> FALSE, pageNumber |-> Null]
  ELSE LET match == Match(pagePatterns[k], lowerQuery)
       IN IF match # <<>> /\ AcceptsPage(parseInt(match))
          THEN [isPageSpecific |-> TRUE, pageNumber |-> parseInt(match)]
          ELSE DetectLoop(lowerQuery, k + 1)

detectPageSpecificQuery(query) == DetectLoop(toLowerCase(query), 1)

(***************************************************************************)
(* DetectSpec: detectPageSpecificQuery applied to every query of up to     *)
(* MaxQueryLen tokens, and to the documented example queries.              *)
(***************************************************************************)
QueryTokens == {"page", "the", "number", " ", "0", "2", "nd", "x"}

BoundedQueries ==
  UNION { [1..n -> QueryTokens] : n \in 0..MaxQueryLen }

\* "What's on page 5?"
QueryPage5 == <<"x", " ", "x", " ", "page", " ", "5", "x">>
\* "Tell me about the 3rd page"
QueryThe3rdPage == <<"x", " ", "x", " ", "x", " ", "The", " ", "3", "rd", " ", "page">>
\* "page number 3"
QueryPageNumber3 == <<"page", " ", "number", " ", "3">>
\* "What is this document about?"
QueryAboutDocument == <<"x", " ", "x", " ", "x", " ", "x", " ", "x">>
\* "Page 12"
QueryPage12 == <<"Page", " ", "1", "2">>

ExampleQueries ==
  {QueryPage5, QueryThe3rdPage, QueryPageNumber3, QueryAboutDocument, QueryPage12}

DetectInit ==
  /\ dQuery \in BoundedQueries \cup ExampleQueries
  /\ dResult = NoResult
  /\ dPc = "input"
  /\ ChunkIdle
  /\ StoreIdle
  /\ RequestIdle
  /\ ServiceIdle
  /\ PipelineIdle

Detect ==
  /\ dPc = "input"
  /\ dResult' = detectPageSpecificQuery(dQuery)
  /\ dPc' = "detected"
  /\ UNCHANGED <<dQuery, chunkVars, storeVars, reqVars, pipelineVars, serviceVars>>

DetectNext == Detect

DetectSpec == DetectInit /\ [][DetectNext]_vars

\* the page number the leftmost match of pattern family p yields, 0 when
\* the family does not match
Yield(p, q) == parseInt(Match(p, toLowerCase(q)))

\* C7: the result is (true, n) for the first pattern family, in the order
\* 'page <n>', 'the <n>th page', 'page number <n>', '<n>th page', whose match
\* yields an integer n > 0 (a family matching a non-positive number is
\* skipped), and (false, null) when no family does; with the documented
\* examples.
C7_FirstPositivePatternWins ==
  dPc = "detected" =>
    LET hits == { p \in 1..4 : Yield(p, dQuery) > 0 }
    IN /\ hits = {} => dResult = [isPageSpecific |-> FALSE, pageNumber |-> Null]
       /\ hits # {} =>
            \E p \in hits :
              /\ \A o \in hits : p <= o
              /\ dResult = [isPageSpecific |-> TRUE, pageNumber |-> Yield(p, dQuery)]
       /\ dQuery = QueryPage5 =>
            dResult = [isPageSpecific |-> TRUE, pageNumber |-> 5]
       /\ dQuery = QueryThe3rdPage =>
            dResult = [isPageSpecific |-> TRUE, pageNumber |-> 3]
       /\ dQuery = QueryPageNumber3 =>
            dResult = [isPageSpecific |-> TRUE, pageNumber |-> 3]
       /\ dQuery = QueryAboutDocument =>
            dResult = [isPageSpecific |-> FALSE, pageNumber |-> Null]

\* 'page 0' is matched by the first family and skipped, '2 page' then wins
\* through the fourth
C7_Witness ==
  /\ dPc = "detected"
  /\ dQuery = <<"2", " ", "page", " ", "0">>
  /\ Match(1, dQuery) = <<"0">>
  /\ dResult = [isPageSpecific |-> TRUE, pageNumber |-> 2]

(***************************************************************************)
(* ChunkSpec: chunkPage and chunkSection applied to every page and         *)
(* section of up to MaxWords words.                                        *)
(***************************************************************************)
PageUnits ==
  { [kind |-> "page", index |-> 0,
     page |-> [pageNumber |-> 1, text |-> Text(lead, n, trail)]] :
      lead \in BOOLEAN, n \in 0..MaxWords, trail \in BOOLEAN }

SectionUnits ==
  { [kind |-> "section", index |-> 0,
     section |-> [title |-> <<"S">>, content |-> lines]] :
      lines \in { <<n>> : n \in 1..MaxWords }
                  \cup { <<n \div 2, n - (n \div 2)>> : n \in 2..MaxWords } }

\* the words String.split yields for the unit
UnitWords(u) ==
  IF u.kind = "page" THEN Split(u.page.text)
  ELSE Split(JoinLines(u.section.content))

ChunkInit ==
  /\ unit \in PageUnits \cup SectionUnits
  /\ unitChunks = <<>>
  /\ unitPc = "input"
  /\ DetectIdle
  /\ StoreIdle
  /\ RequestIdle
  /\ ServiceIdle
  /\ PipelineIdle

ChunkPage ==
  /\ unitPc = "input"
  /\ unit.kind = "page"
  /\ unitChunks' = chunkPage(unit.page, unit.index)
  /\ unitPc' = "chunked"
  /\ UNCHANGED <<unit, detectVars, pipelineVars, storeVars, reqVars, serviceVars>>

ChunkSection ==
  /\ unitPc = "input"
  /\ unit.kind = "section"
  /\ unitChunks' = chunkSection(unit.section, unit.index)
  /\ unitPc' = "chunked"
  /\ UNCHANGED <<unit, detectVars, pipelineVars, storeVars, reqVars, serviceVars>>

ChunkNext == ChunkPage \/ ChunkSection

ChunkSpec == ChunkInit /\ [][ChunkNext]_vars

(***************************************************************************)
(* Properties of the split algorithm (checked under ChunkSpec).            *)
(***************************************************************************)
CeilDiv(a, b) == (a + b - 1) \div b

\* the unit was split: its word count exceeds maxChunkSize
UnitIsSplit == unitPc = "chunked" /\ Len(UnitWords(unit)) > maxChunkSize

\* C8: a page or section of N > maxChunkSize words yields exactly
\* ceil((N - overlapSize) / (maxChunkSize - overlapSize)) chunks.
C8_ChunkCountFormula ==
  UnitIsSplit =>
    Len(unitChunks) = CeilDiv(Len(UnitWords(unit)) - overlapSize,
                              maxChunkSize - overlapSize)

\* the number of leading words of cur that are the trailing words of prev
SharedLeading(prev, cur) ==
  LET fits == { m \in 1..Min(Len(prev), Len(cur)) :
                  /\ prev[Len(prev) - m + 1] = cur[1]
                  /\ SubSeq(cur, 1, m) = SubSeq(prev, Len(prev) - m + 1, Len(prev)) }
  IN IF fits = {} THEN 0 ELSE CHOOSE m \in fits : \A o \in fits : o <= m

RECURSIVE Reassemble(_, _)
\* the parts in part order, each part after the first without the leading
\* words it shares with the part before it
Reassemble(parts, k) ==
  IF k = 0 THEN <<>>
  ELSE IF k = 1 THEN parts[1].content.words
  ELSE LET cur  == parts[k].content.words
           prev == parts[k - 1].content.words
       IN Reassemble(parts, k - 1)
            \o SubSeq(cur, SharedLeading(prev, cur) + 1, Len(cur))

\* C9: the parts of a split page or section, in part order and without the
\* leading words each shares with its predecessor, are exactly the original
\* word sequence; part k holds the words at indices
\* [startWordIndex, startWordIndex + wordCount) and these ranges cover
\* [0, N) without a gap.
C9_PartsReconstructWords ==
  UnitIsSplit =>
    LET words == UnitWords(unit)
        n     == Len(unitChunks)
        from(k) == unitChunks[k].metadata.startWordIndex
        to(k)   == from(k) + unitChunks[k].metadata.wordCount
    IN /\ n >= 1
       /\ Reassemble(unitChunks, n) = words
       /\ \A k \in 1..n :
            /\ unitChunks[k].metadata.chunkPart = k
            /\ unitChunks[k].content.words = SubSeq(words, from(k) + 1, to(k))
       /\ from(1) = 0
       /\ \A k \in 2..n : from(k - 1) < from(k) /\ from(k) <= to(k - 1)
       /\ to(n) = Len(words)

C9_Witness ==
  /\ UnitIsSplit
  /\ unit.kind = "section"
  /\ Len(unitChunks) = 3
  /\ Reassemble(unitChunks, 3) = UnitWords(unit)

\* C10: every part of a split page or section except the last has exactly
\* maxChunkSize words, and the last part holds the remainder.
C10_FullPartsThenRemainder ==
  UnitIsSplit =>
    LET n == Len(unitChunks)
    IN /\ \A k \in 1..(n - 1) : unitChunks[k].metadata.wordCount = maxChunkSize
       /\ unitChunks[n].metadata.wordCount =
            Len(UnitWords(unit)) - (n - 1) * (maxChunkSize - overlapSize)

\* the last m words of a word sequence
LastWords(words, m) == SubSeq(words, Len(words) - m + 1, Len(words))

\* C11: every part after the first of a split page or section starts with
\* exactly overlapSize words that are the last overlapSize words of the
\* part before it.
C11_OverlapIsOverlapSize ==
  UnitIsSplit =>
    \A k \in 2..Len(unitChunks) :
      LET prev == unitChunks[k - 1].content.words
          cur  == unitChunks[k].content.words
      IN /\ Len(cur) >= overlapSize
         /\ Len(prev) >= overlapSize
         /\ SubSeq(cur, 1, overlapSize) = LastWords(prev, overlapSize)
         /\ SharedLeading(prev, cur) = overlapSize

(***************************************************************************)
(* The uploaded documents.                                                 *)
(***************************************************************************)
Page(pageNumber, text) == [pageNumber |-> pageNumber, text |-> text]

\* generateSummary: `This document contains ${n} main sections.`, and with
\* ` with approximately ${w} words.` for more than 100 words
ShortSummaryWords == 6
LongSummaryWords == 10

\* "Consider adding more detail to your work experience"
ExperienceSuggestionWords == 8

\* explanations.methodology = "This section describes the research methods
\* and procedures used in the study."
MethodologyExplanation == [key |-> "methodology", words |-> 13]

\* explanations.results = "This section presents the findings and outcomes
\* of the research."
ResultsExplanation == [key |-> "results", words |-> 10]

\* three pages, the second with empty text; one explanation
DocA ==
  [documentType |-> "research_paper", summary |-> ShortSummaryWords,
   pages |-> << Page(1, Text(FALSE, 2, FALSE)),
                Page(2, Text(FALSE, 0, FALSE)),
                Page(3, Text(TRUE, 3, TRUE)) >>,
   sections |-> << [title |-> <<"M", "e">>, content |-> <<2, 3>>] >>,
   suggestions |-> <<>>,
   explanations |-> << MethodologyExplanation >>]

\* two pages, the first of whitespace only, the second long enough to be
\* split; two sections; one suggestion
DocB ==
  [documentType |-> "resume", summary |-> ShortSummaryWords,
   pages |-> << Page(1, Text(TRUE, 0, FALSE)),
                Page(2, Text(FALSE, LongPageWords, FALSE)) >>,
   sections |-> << [title |-> <<"E", "x">>, content |-> <<3>>],
                   [title |-> <<"S">>, content |-> <<1, 1>>] >>,
   suggestions |-> << ExperienceSuggestionWords >>,
   explanations |-> <<>>]

Documents == {DocA, DocB}

(***************************************************************************)
(* CreateSpec: createChunks applied to one document of a bounded family:   *)
(* up to two pages (empty, whitespace only, short, exactly maxChunkSize    *)
(* words, long), no sections property or up to two sections (short,        *)
(* long, without content), no, one or many suggestions, up to two          *)
(* explanations, with and without a summary.                               *)
(***************************************************************************)
\* the number of suggestions of the document with many suggestions
ManySuggestions == 65

\* the number of words of each line of the long section
LongSectionLineWords == 300

CreatePageTexts ==
  { Text(FALSE, 0, FALSE), Text(TRUE, 0, FALSE), Text(FALSE, 3, TRUE),
    Text(FALSE, maxChunkSize, FALSE), Text(FALSE, LongPageWords, FALSE) }

CreatePages ==
  { <<>> }
    \cup { << Page(1, t) >> : t \in CreatePageTexts }
    \cup { << Page(1, t1), Page(2, t2) >> : t1, t2 \in CreatePageTexts }

CreateSectionChoices ==
  { [title |-> <<"S">>, content |-> <<3>>],
    [title |-> <<"E", "x">>,
     content |-> <<LongSectionLineWords, LongSectionLineWords>>],
    [title |-> <<"M", "e">>, content |-> <<>>] }

CreateSections ==
  { <<>> }
    \cup { << a >> : a \in CreateSectionChoices }
    \cup { << a, b >> : a, b \in CreateSectionChoices }

CreateSuggestions ==
  { <<>>, << ExperienceSuggestionWords >>,
    [k \in 1..ManySuggestions |-> ExperienceSuggestionWords] }

CreateExplanations ==
  { <<>>, << MethodologyExplanation >>,
    << MethodologyExplanation, ResultsExplanation >> }

CreateDocuments ==
  { [documentType |-> "resume", summary |-> summary, pages |-> pages,
     sections |-> sections, suggestions |-> suggestions,
     explanations |-> explanations] :
      summary \in {0, LongSummaryWords}, pages \in CreatePages,
      sections \in CreateSections, suggestions \in CreateSuggestions,
      explanations \in CreateExplanations }
  \cup
  { [documentType |-> "resume", summary |-> summary, pages |-> pages,
     suggestions |-> suggestions, explanations |-> explanations] :
      summary \in {0, LongSummaryWords}, pages \in CreatePages,
      suggestions \in CreateSuggestions,
      explanations \in CreateExplanations }

CreateInit ==
  /\ cDoc \in CreateDocuments
  /\ cOut = NoOutcome
  /\ cPc = "input"
  /\ SearchIdle
  /\ UploadIdle
  /\ ChunkIdle
  /\ DetectIdle
  /\ StoreIdle
  /\ RequestIdle
  /\ ServiceIdle

\* createChunks(structuredData) returns its chunks
CreateChunksReturns ==
  /\ cPc = "input"
  /\ ~createChunksThrows(cDoc)
  /\ cOut' = [status |-> "returned", value |-> createChunks(cDoc)]
  /\ cPc' = "created"
  /\ UNCHANGED <<cDoc, searchVars, uploadVars, chunkVars, detectVars, storeVars,
                 reqVars, serviceVars>>

\* createChunks(structuredData) throws while it builds the document-info chunk
CreateChunksThrows ==
  /\ cPc = "input"
  /\ createChunksThrows(cDoc)
  /\ cOut' = [status |-> "threw", value |-> <<"TypeError">>]
  /\ cPc' = "created"
  /\ UNCHANGED <<cDoc, searchVars, uploadVars, chunkVars, detectVars, storeVars,
                 reqVars, serviceVars>>

CreateNext == CreateChunksReturns \/ CreateChunksThrows

CreateSpec == CreateInit /\ [][CreateNext]_vars

(***************************************************************************)
(* Properties of createChunks (checked under CreateSpec).                  *)
(***************************************************************************)
\* the word count of a chunk: its metadata.wordCount where createChunks
\* records one, the number of words of its text otherwise
ChunkWordCount(chunk) ==
  IF "wordCount" \in DOMAIN chunk.metadata THEN chunk.metadata.wordCount
  ELSE Len(chunk.content.words)

\* C12: every chunk createChunks returns, of every kind, has at most
\* maxChunkSize words.
C12_EveryChunkWithinMaxChunkSize ==
  cOut.status = "returned" =>
    \A k \in 1..Len(cOut.value) :
      /\ ChunkWordCount(cOut.value[k]) <= maxChunkSize
      /\ Len(cOut.value[k].content.words) <= maxChunkSize

\* the positions of the chunks of the page at 0-based index pageIndex
PageChunksAt(chunks, pageIndex) ==
  { k \in 1..Len(chunks) :
      /\ chunks[k].metadata.section = "page_content"
      /\ chunks[k].metadata.pageIndex = pageIndex }

\* the positions of the chunks of the section at 0-based index sectionIndex
SectionChunksAt(chunks, sectionIndex) ==
  { k \in 1..Len(chunks) :
      /\ chunks[k].metadata.section = "section_content"
      /\ chunks[k].metadata.sectionIndex = sectionIndex }

\* exactly one chunk at the positions, without a part number, whose
\* metadata.wordCount is the given word count
OneWholeChunk(chunks, positions, wordCount) ==
  /\ Cardinality(positions) = 1
  /\ \A k \in positions :
       /\ "chunkPart" \notin DOMAIN chunks[k].metadata
       /\ chunks[k].content.part = Undefined
       /\ chunks[k].metadata.wordCount = wordCount

\* every section of at most maxChunkSize words yields one whole chunk
SmallSectionsYieldOneChunk ==
  \A j \in 1..Len(cDoc.sections) :
    LET n == Len(Split(JoinLines(cDoc.sections[j].content)))
    IN n <= maxChunkSize =>
         OneWholeChunk(cOut.value, SectionChunksAt(cOut.value, j - 1), n)

\* C13 as stated: every page with non-empty text, and every section, of at
\* most maxChunkSize words yields exactly one chunk, without a part number,
\* whose metadata.wordCount equals the input's word count.
C13_SmallUnitYieldsOneChunk ==
  cOut.status = "returned" =>
    /\ \A j \in 1..Len(cDoc.pages) :
         LET n == Len(Split(cDoc.pages[j].text))
         IN Truthy(cDoc.pages[j].text) /\ n <= maxChunkSize =>
              OneWholeChunk(cOut.value, PageChunksAt(cOut.value, j - 1), n)
    /\ SmallSectionsYieldOneChunk

\* C13, amended: every page whose trimmed text is non-empty, and every
\* section, of at most maxChunkSize words yields exactly one chunk, without
\* a part number, whose metadata.wordCount equals the input's word count.
C13_SmallTrimmedUnitYieldsOneChunk ==
  cOut.status = "returned" =>
    /\ \A j \in 1..Len(cDoc.pages) :
         LET n == Len(Split(cDoc.pages[j].text))
         IN TrimNonEmpty(cDoc.pages[j].text) /\ n <= maxChunkSize =>
              OneWholeChunk(cOut.value, PageChunksAt(cOut.value, j - 1), n)
    /\ SmallSectionsYieldOneChunk

\* a document with a page of exactly maxChunkSize words and a short section
\* has been chunked
C13_Witness ==
  /\ cOut.status = "returned"
  /\ Len(cDoc.pages) = 2
  /\ cDoc.pages[2].text = Text(FALSE, maxChunkSize, FALSE)
  /\ OneWholeChunk(cOut.value, PageChunksAt(cOut.value, 1), maxChunkSize)
  /\ Len(cDoc.sections) = 1
  /\ OneWholeChunk(cOut.value, SectionChunksAt(cOut.value, 0), 3)

\* the group of a chunk in the order createChunks emits the groups in
GroupRank(chunk) ==
  CASE chunk.metadata.section = "document_info" -> 0
    [] chunk.metadata.section = "page_content" -> 1
    [] chunk.metadata.section = "section_content" -> 2
    [] chunk.metadata.section = "suggestions" -> 3
    [] chunk.metadata.section = "explanations" -> 4

\* the chunks at the positions are contiguous and, when they carry part
\* numbers, are parts 1, 2, ... in this order
PartsInOrder(chunks, positions) ==
  /\ \A a, b \in positions : \A c \in a..b : c \in positions
  /\ \A k \in positions :
       \/ /\ "chunkPart" \notin DOMAIN chunks[k].metadata
          /\ Cardinality(positions) = 1
       \/ /\ "chunkPart" \in DOMAIN chunks[k].metadata
          /\ chunks[k].metadata.chunkPart =
               Cardinality({ o \in positions : o <= k })

\* C14: createChunks returns exactly one document-info chunk, first; then
\* the page chunks in page order, the parts of a page contiguous and in
\* ascending part number, none for a page whose trimmed text is empty; then
\* the section chunks in section order; then the suggestions chunk; then
\* the explanation chunks; no chunk of an earlier group follows a chunk of
\* a later group.
C14_ChunkOrder ==
  cOut.status = "returned" =>
    LET chunks == cOut.value
        n == Len(chunks)
    IN /\ n >= 1
       /\ \A k \in 1..n : (GroupRank(chunks[k]) = 0) <=> (k = 1)
       /\ \A k \in 1..(n - 1) : GroupRank(chunks[k]) <= GroupRank(chunks[k + 1])
       /\ \A k \in 1..n :
            /\ GroupRank(chunks[k]) = 1 =>
                 chunks[k].metadata.pageIndex \in 0..(Len(cDoc.pages) - 1)
            /\ GroupRank(chunks[k]) = 2 =>
                 chunks[k].metadata.sectionIndex \in 0..(Len(cDoc.sections) - 1)
       /\ \A j \in 1..Len(cDoc.pages) :
            /\ TrimNonEmpty(cDoc.pages[j].text) <=> PageChunksAt(chunks, j - 1) # {}
            /\ PartsInOrder(chunks, PageChunksAt(chunks, j - 1))
            /\ \A i \in 1..(j - 1) :
                 \A a \in PageChunksAt(chunks, i - 1), b \in PageChunksAt(chunks, j - 1) :
                   a < b
       /\ \A j \in 1..Len(cDoc.sections) :
            /\ SectionChunksAt(chunks, j - 1) # {}
            /\ PartsInOrder(chunks, SectionChunksAt(chunks, j - 1))
            /\ \A i \in 1..(j - 1) :
                 \A a \in SectionChunksAt(chunks, i - 1),
                    b \in SectionChunksAt(chunks, j - 1) : a < b
       /\ Cardinality({ k \in 1..n : GroupRank(chunks[k]) = 3 }) =
            (IF Len(cDoc.suggestions) > 0 THEN 1 ELSE 0)
       /\ Cardinality({ k \in 1..n : GroupRank(chunks[k]) = 4 }) =
            Len(cDoc.explanations)

\* a document with a split page before a short page, a split section
\* before a short section, suggestions and two explanations has been chunked
C14_Witness ==
  /\ cOut.status = "returned"
  /\ Len(cDoc.pages) = 2
  /\ Cardinality(PageChunksAt(cOut.value, 0)) = 2
  /\ Cardinality(PageChunksAt(cOut.value, 1)) = 1
  /\ Len(cDoc.sections) = 2
  /\ Cardinality(SectionChunksAt(cOut.value, 0)) = 2
  /\ Cardinality(SectionChunksAt(cOut.value, 1)) = 1
  /\ Len(cDoc.suggestions) > 0
  /\ Len(cDoc.explanations) = 2
  /\ Len(cOut.value) = 10

\* the document with an empty sections array in place of the missing one
WithEmptySections(doc) ==
  [f \in DOMAIN doc \cup {"sections"} |->
     IF f = "sections" THEN <<>> ELSE doc[f]]

\* C15: createChunks applied to a document without a sections array does
\* not fail and returns what it returns for the same document with an empty
\* sections array: the document-info chunk reporting zero sections, the
\* page chunks, no section chunk.
C15_MissingSectionsTreatedAsEmpty ==
  (cPc = "created" /\ "sections" \notin DOMAIN cDoc) =>
    /\ cOut.status = "returned"
    /\ cOut.value = createChunks(WithEmptySections(cDoc))
    /\ cOut.value[1].metadata.totalSections = 0
    /\ \A k \in 1..Len(cOut.value) : GroupRank(cOut.value[k]) # 2

\* "page 1", "page 2", "the 7th page", and a query that names no page
ChatQueries ==
  { <<"x", " ", "page", " ", "1">>,
    <<"Page", " ", "2", "x">>,
    <<"the", " ", "7", "th", " ", "page">>,
    <<"x", " ", "x">> }

\* the fileId argument of a request: none, an uploaded file, an unknown file
RequestFileIds == 0..(MaxUploads + 1)

SectionNames == { <<"e", "x">>, <<"S">>, <<"z">> }

(***************************************************************************)
(* ChatService: the model-fallback loop shared by generateResponse,        *)
(* generateFollowUpQuestions, analyzeDocument and improveSection.          *)
(***************************************************************************)
\* const models = [ primaryModel, fallbackModel1, fallbackModel2 ]
models == <<"Primary Model", "Fallback Model 1", "Fallback Model 2">>

\* how each operation calls the models and what it does when the last fails
Use(op) ==
  CASE op = "chat" ->
         [transport |-> "client", timeoutMs |-> 30000, maxTokens |-> 500,
          terminal |-> "throw", limit |-> 10]
    [] op = "followup" ->
         [transport |-> "fetch", timeoutMs |-> 20000, maxTokens |-> 300,
          terminal |-> "empty", limit |-> 10]
    [] op = "analyze" ->
         [transport |-> "fetch", timeoutMs |-> 30000, maxTokens |-> 600,
          terminal |-> "throw", limit |-> 15]
    [] op = "improve" ->
         [transport |-> "fetch", timeoutMs |-> 25000, maxTokens |-> 500,
          terminal |-> "throw", limit |-> 20]

\* a terminal policy that raises in every operation
TerminalPolicy_AlwaysThrow(op) == "throw"

\* if (i === models.length - 1) { throw error }  or  { return [] }
TerminalPolicy(op) == Use(op).terminal

\* if (i === models.length - 1)
IsLastModel(i) == i = Len(models)

\* a loop that requests the failed candidate again
NextCandidate_Retry(i) == i

\* for (let i = 0; i < models.length; i++)
NextCandidate(i) == i + 1

\* the text of choices[0].message.content a candidate answers with: a
\* numbered line and a blank line
ModelReply(i) ==
  << [numbered |-> TRUE, blank |-> FALSE, text |-> i],
     [numbered |-> FALSE, blank |-> TRUE, text |-> 0] >>

RECURSIVE ParseQuestions(_)
\* questionsText.split("\n").filter(q => q.trim().length > 0)
\*   .map(q => q.replace(/^\d+\.\s*/, "").trim())
ParseQuestions(lines) ==
  IF lines = <<>> THEN <<>>
  ELSE (IF Head(lines).blank THEN <<>>
        ELSE << [numbered |-> FALSE, blank |-> FALSE, text |-> Head(lines).text] >>)
       \o ParseQuestions(Tail(lines))

\* what each operation returns from a well-formed answer of candidate i
SuccessValue(op, i) ==
  IF op = "followup" THEN ParseQuestions(ModelReply(i)) ELSE ModelReply(i)

\* throw new Error(`Chat failed: ${error.message}`) in chatWithPDF
ChatFailed(error) == [error EXCEPT !.wrapped = TRUE]

Returned(value, i, chunksUsed, isPageSpecific, targetPage) ==
  [status |-> "returned", value |-> value, model |-> i, error |-> NoError,
   chunksUsed |-> chunksUsed, isPageSpecific |-> isPageSpecific,
   targetPage |-> targetPage]

Raised(error) ==
  [status |-> "raised", value |-> <<>>, model |-> 0, error |-> error,
   chunksUsed |-> Undefined, isPageSpecific |-> FALSE, targetPage |-> Null]

\* the outcome of the operation when its last candidate failed with error
TerminalResult(op, error) ==
  IF TerminalPolicy(op) = "throw"
  THEN Raised(IF op = "chat" THEN ChatFailed(error) ELSE error)
  ELSE Returned(<<>>, 0, Undefined, FALSE, Null)

(***************************************************************************)
(* ChatService.chatWithPDF: routing, retrieval, context.                   *)
(***************************************************************************)
\* a routing that takes the page branch whenever the query names a page
Route_PageWithoutFile(isPageSpecific, fileId) ==
  IF isPageSpecific THEN "page"
  ELSE IF fileId # NoFile THEN "file" ELSE "similar"

\* if (pageQueryResult.isPageSpecific && fileId) ... else if (fileId) ... else
Route(isPageSpecific, fileId) ==
  IF isPageSpecific /\ fileId # NoFile THEN "page"
  ELSE IF fileId # NoFile THEN "file" ELSE "similar"

\* a check that never short-circuits
PageShortCircuit_Never(chunks) == FALSE

\* if (relevantChunks.length === 0) return { "I couldn't find any content" }
PageShortCircuit(chunks) == Len(chunks) = 0

\* buildContext(chunks, fileId, isPageSpecific, targetPage)
buildContext(chunks, fileId, isPageSpecific, targetPage) ==
  IF Len(chunks) = 0
  THEN [header |-> IF isPageSpecific THEN "no content on page" ELSE "no relevant information",
        page |-> IF isPageSpecific THEN targetPage ELSE Undefined,
        items |-> <<>>, fileId |-> NoFile]
  ELSE [header |-> IF isPageSpecific THEN "from page" ELSE "from the document",
        page |-> IF isPageSpecific THEN targetPage ELSE Undefined,
        items |-> [k \in 1..Len(chunks) |-> chunks[k].content],
        fileId |-> fileId]

\* the terminal 'no content on page N' result
NoContentOnPage(targetPage) == Returned(<<>>, 0, 0, TRUE, targetPage)

\* the hits of searchByFileIdAndPage(fileId, pageNumber, limit); an index
\* failure is caught and yields []
PageHits(fileId, pageNumber, limit, indexUp) ==
  IF indexUp
  THEN { ScrollHits(pts) :
           pts \in ScrollResults({ pt \in points :
                                     PageFilter(fileId, pageNumber, pt.payload) },
                                 limit) }
  ELSE { <<>> }

\* the hits of searchByFileId(fileId, limit); an index failure yields []
FileHits(fileId, limit, indexUp) ==
  IF indexUp
  THEN { ScrollHits(pts) :
           pts \in ScrollResults({ pt \in points : FileFilter(fileId, pt.payload) },
                                 limit) }
  ELSE { <<>> }

\* the ways the index may rank the stored points for a query vector
Rankings == {"ascending", "descending"}

RECURSIVE Reverse(_)
Reverse(seq) == IF seq = <<>> THEN <<>> ELSE Reverse(Tail(seq)) \o <<Head(seq)>>

\* the hits of searchSimilar(queryEmbedding, limit) without a filter: none,
\* without a search, for the zero vector; the `limit` best-ranked points
\* otherwise
SimilarHits(embedding, limit, ranking) ==
  IF embedding = "zero" THEN <<>>
  ELSE LET ranked == IF ranking = "ascending" THEN SearchHits(points)
                     ELSE Reverse(SearchHits(points))
       IN SubSeq(ranked, 1, Min(limit, Len(ranked)))

\* what getQueryEmbedding can return: the model's vector, the fallback
\* vector (on an error or a timeout), or a vector of zeros from the model
QueryEmbeddings == {"vector", "fallback", "zero"}

(***************************************************************************)
(* Spec: uploads, and one request at a time taken through its retrieval    *)
(* and its model-fallback loop.                                            *)
(***************************************************************************)
Init ==
  /\ StoreIdle
  /\ RequestIdle
  /\ ServiceIdle
  /\ PipelineIdle
  /\ ChunkIdle
  /\ DetectIdle

\* POST /api/pdf/upload: chunkAndEmbed and storeEmbeddings of one document
Upload ==
  /\ pc = "idle"
  /\ uploads < MaxUploads
  /\ \E doc \in Documents :
       /\ points' = points \cup
                      storeEmbeddings(chunkAndEmbed(doc, uploads + 1), uploads + 1)
       /\ docs' = Append(docs, doc)
  /\ uploads' = uploads + 1
  /\ UNCHANGED <<reqVars, chunkVars, detectVars, pipelineVars, serviceVars>>

\* the request goes on to the fallback loop with the retrieved chunks
EnterLoop(request, hits, ctx, call) ==
  /\ req' = request
  /\ calls' = call
  /\ relevantChunks' = hits
  /\ context' = ctx
  /\ pc' = "request"
  /\ cand' = 1
  /\ UNCHANGED <<requested, attempts, result, timer>>

\* the request ends before the fallback loop
EndEarly(request, hits, call, res) ==
  /\ req' = request
  /\ calls' = call
  /\ relevantChunks' = hits
  /\ result' = res
  /\ pc' = "done"
  /\ UNCHANGED <<cand, requested, attempts, context, timer>>

\* chatWithPDF(query, fileId) up to the call of generateResponse
StartChat ==
  /\ pc = "idle"
  /\ \E query \in ChatQueries, fileId \in RequestFileIds, indexUp \in BOOLEAN,
        embedding \in QueryEmbeddings, ranking \in Rankings :
       LET pageQueryResult == detectPageSpecificQuery(query)
           route == Route(pageQueryResult.isPageSpecific, fileId)
           targetPage == pageQueryResult.pageNumber
           request == [op |-> "chat", query |-> query, fileId |-> fileId,
                       sectionName |-> <<>>]
       IN CASE route = "page" ->
                 \E hits \in PageHits(fileId, targetPage, 10, indexUp) :
                   LET call == << [call |-> "searchByFileIdAndPage", fileId |-> fileId,
                                   page |-> targetPage, limit |-> 10] >>
                   IN IF PageShortCircuit(hits)
                      THEN EndEarly(request, hits, call, NoContentOnPage(targetPage))
                      ELSE EnterLoop(request, hits,
                                     buildContext(hits, fileId, TRUE, targetPage), call)
            [] route = "file" ->
                 \E hits \in FileHits(fileId, 10, indexUp) :
                   EnterLoop(request, hits,
                             buildContext(hits, fileId, FALSE, Null),
                             << [call |-> "searchByFileId", fileId |-> fileId,
                                 page |-> Null, limit |-> 10] >>)
            [] route = "similar" ->
                 LET call == << [call |-> "getQueryEmbedding", fileId |-> NoFile,
                                 page |-> Null, limit |-> Undefined],
                                [call |-> "searchSimilar", fileId |-> NoFile,
                                 page |-> Null, limit |-> 5] >>
                     hits == SimilarHits(embedding, 5, ranking)
                 IN IF embedding # "zero" /\ ~indexUp
                    THEN EndEarly(request, <<>>, call,
                                  Raised(ChatFailed([kind |-> "index", model |-> 0,
                                                     wrapped |-> FALSE])))
                    ELSE EnterLoop(request, hits,
                                   buildContext(hits, fileId, FALSE, Null), call)
  /\ UNCHANGED <<storeVars, chunkVars, detectVars, pipelineVars, serviceVars>>

\* an emptiness test that never holds
NothingRetrieved_Never(chunks) == FALSE

\* if (chunks.length === 0) / if (sectionChunks.length === 0)
NothingRetrieved(chunks) == Len(chunks) = 0

\* generateFollowUpQuestions(fileId, documentType) up to the loop
StartFollowUp ==
  /\ pc = "idle"
  /\ \E fileId \in RequestFileIds \ {NoFile}, indexUp \in BOOLEAN :
       \E hits \in FileHits(fileId, 10, indexUp) :
         LET request == [op |-> "followup", query |-> <<>>, fileId |-> fileId,
                         sectionName |-> <<>>]
             call == << [call |-> "searchByFileId", fileId |-> fileId,
                         page |-> Null, limit |-> 10] >>
         IN IF NothingRetrieved(hits)
            THEN EndEarly(request, hits, call, Returned(<<>>, 0, Undefined, FALSE, Null))
            ELSE EnterLoop(request, hits, buildContext(hits, NoFile, FALSE, Null), call)
  /\ UNCHANGED <<storeVars, chunkVars, detectVars, pipelineVars, serviceVars>>

\* analyzeDocument(fileId, documentType) up to the loop
StartAnalyze ==
  /\ pc = "idle"
  /\ \E fileId \in RequestFileIds \ {NoFile}, indexUp \in BOOLEAN :
       \E hits \in FileHits(fileId, 15, indexUp) :
         LET request == [op |-> "analyze", query |-> <<>>, fileId |-> fileId,
                         sectionName |-> <<>>]
             call == << [call |-> "searchByFileId", fileId |-> fileId,
                         page |-> Null, limit |-> 15] >>
         IN IF NothingRetrieved(hits)
            THEN EndEarly(request, hits, call,
                          Returned(<<"No document content found">>, 0, Undefined,
                                   FALSE, Null))
            ELSE EnterLoop(request, hits, buildContext(hits, NoFile, FALSE, Null), call)
  /\ UNCHANGED <<storeVars, chunkVars, detectVars, pipelineVars, serviceVars>>

LowerLetter(c) ==
  CASE c = "E" -> "e" [] c = "M" -> "m" [] c = "S" -> "s" [] OTHER -> c

LowerWord(w) == [k \in 1..Len(w) |-> LowerLetter(w[k])]

\* haystack.includes(needle)
Includes(haystack, needle) ==
  \E k \in 0..(Len(haystack) - Len(needle)) :
    SubSeq(haystack, k + 1, k + Len(needle)) = needle

\* chunk.metadata.sectionTitle?.toLowerCase().includes(sectionName.toLowerCase());
\* sectionTitle is undefined (<<>>) for the chunks that have no section title
InSection(chunk, sectionName) ==
  /\ chunk.metadata.sectionTitle # <<>>
  /\ Includes(LowerWord(chunk.metadata.sectionTitle), LowerWord(sectionName))

RECURSIVE Filter(_, _)
Filter(chunks, sectionName) ==
  IF chunks = <<>> THEN <<>>
  ELSE (IF InSection(Head(chunks), sectionName) THEN <<Head(chunks)>> ELSE <<>>)
       \o Filter(Tail(chunks), sectionName)

\* improveSection(fileId, sectionName, improvementType) up to the loop
StartImprove ==
  /\ pc = "idle"
  /\ \E fileId \in RequestFileIds \ {NoFile}, indexUp \in BOOLEAN,
        sectionName \in SectionNames :
       \E hits \in FileHits(fileId, 20, indexUp) :
         LET request == [op |-> "improve", query |-> <<>>, fileId |-> fileId,
                         sectionName |-> sectionName]
             call == << [call |-> "searchByFileId", fileId |-> fileId,
                         page |-> Null, limit |-> 20] >>
             sectionChunks == Filter(hits, sectionName)
         IN IF NothingRetrieved(sectionChunks)
            THEN EndEarly(request, hits, call,
                          Returned(<<"Section not found">>, 0, Undefined, FALSE, Null))
            ELSE EnterLoop(request, sectionChunks,
                           buildContext(sectionChunks, NoFile, FALSE, Null), call)
  /\ UNCHANGED <<storeVars, chunkVars, detectVars, pipelineVars, serviceVars>>

\* the loop body starts: the request to models[i] is issued and raced
\* against a timer
RequestCandidate ==
  /\ pc = "request"
  /\ requested' = Append(requested, cand)
  /\ timer' = "armed"
  /\ pc' = "race"
  /\ UNCHANGED <<req, cand, attempts, calls, relevantChunks, context, result,
                 storeVars, chunkVars, detectVars,
                 pipelineVars, serviceVars>>

\* the attempt in flight succeeded: the operation returns
AttemptSucceeds ==
  /\ attempts' = Append(attempts, [model |-> cand, outcome |-> "ok"])
  /\ result' = Returned(SuccessValue(req.op, cand), cand, Len(relevantChunks),
                        context.header = "from page", context.page)
  /\ pc' = "done"
  /\ timer' = "off"
  /\ UNCHANGED <<req, cand, requested, calls, relevantChunks, context,
                 storeVars, chunkVars, detectVars,
                 pipelineVars, serviceVars>>

\* the attempt in flight failed: catch (error) { ... }
AttemptFails(kind) ==
  /\ attempts' = Append(attempts, [model |-> cand, outcome |-> kind])
  /\ timer' = "off"
  /\ IF IsLastModel(cand)
     THEN /\ result' = TerminalResult(req.op, [kind |-> kind, model |-> cand,
                                              wrapped |-> FALSE])
          /\ pc' = "done"
          /\ cand' = cand
     ELSE /\ pc' = "request"
          /\ cand' = NextCandidate(cand)
          /\ UNCHANGED result
  /\ UNCHANGED <<req, requested, calls, relevantChunks, context,
                 storeVars, chunkVars, detectVars,
                 pipelineVars, serviceVars>>

\* the shapes of a resolved completion: well-formed, without choices, with
\* a choice that has no message
ResponseShapes == {"ok", "no choices", "no message"}

AfterResponse(shape) ==
  IF shape = "ok" THEN AttemptSucceeds
  ELSE IF shape = "no choices" THEN AttemptFails("invalid response")
  ELSE AttemptFails("type error")

\* generateResponse: client.chatCompletion(...) resolves before the timer
CompletionResolves ==
  /\ pc = "race"
  /\ Use(req.op).transport = "client"
  /\ \E shape \in ResponseShapes : AfterResponse(shape)

\* generateResponse: client.chatCompletion(...) rejects before the timer
CompletionRejects ==
  /\ pc = "race"
  /\ Use(req.op).transport = "client"
  /\ AttemptFails("transport error")

\* fetch(...) resolves (the response headers arrived) before the timer:
\* the race is settled and the loop goes on to await response.json()
FetchResolves ==
  /\ pc = "race"
  /\ Use(req.op).transport = "fetch"
  /\ pc' = "body"
  /\ UNCHANGED <<req, cand, requested, attempts, calls, relevantChunks, context,
                 result, timer, storeVars, chunkVars, detectVars,
                 pipelineVars, serviceVars>>

\* fetch(...) rejects before the timer
FetchRejects ==
  /\ pc = "race"
  /\ Use(req.op).transport = "fetch"
  /\ AttemptFails("transport error")

\* await response.json() resolves
BodyResolves ==
  /\ pc = "body"
  /\ \E shape \in ResponseShapes : AfterResponse(shape)

\* await response.json() rejects (the body is not JSON, the connection broke)
BodyRejects ==
  /\ pc = "body"
  /\ AttemptFails("body error")

\* the setTimeout callback runs: it rejects the timeout promise, which ends
\* the attempt if the race is still open and is unobserved otherwise
TimerFires ==
  /\ timer = "armed"
  /\ \/ pc = "race" /\ AttemptFails("timeout")
     \/ /\ pc = "body"
        /\ timer' = "fired"
        /\ UNCHANGED <<req, pc, cand, requested, attempts, calls, relevantChunks,
                       context, result, storeVars, chunkVars, detectVars,
                       pipelineVars, serviceVars>>

\* the response has been sent; the next request can be served
Finish ==
  /\ pc = "done"
  /\ req' = NoRequest
  /\ pc' = "idle"
  /\ cand' = 0
  /\ requested' = <<>>
  /\ attempts' = <<>>
  /\ calls' = <<>>
  /\ relevantChunks' = <<>>
  /\ context' = NoContext
  /\ result' = Pending
  /\ timer' = "off"
  /\ UNCHANGED <<storeVars, chunkVars, detectVars, pipelineVars, serviceVars>>

Next ==
  \/ Upload
  \/ StartChat
  \/ StartFollowUp
  \/ StartAnalyze
  \/ StartImprove
  \/ RequestCandidate
  \/ CompletionResolves
  \/ CompletionRejects
  \/ FetchResolves
  \/ FetchRejects
  \/ BodyResolves
  \/ BodyRejects
  \/ TimerFires
  \/ Finish

Spec == Init /\ [][Next]_vars

\* the loop itself and the timers always run; whether and when a remote
\* endpoint answers is up to the endpoint
FairSpec ==
  /\ Spec
  /\ WF_vars(RequestCandidate)
  /\ WF_vars(TimerFires)

(***************************************************************************)
(* Properties of the model-fallback loop (checked under Spec / FairSpec).  *)
(***************************************************************************)
FailureKinds ==
  {"timeout", "transport error", "invalid response", "type error", "body error"}

\* C1: the candidates are requested in the order primary, fallback 1,
\* fallback 2, each at most once, each only after every earlier candidate
\* has failed, and the first well-formed answer is returned without any
\* later candidate being requested; when candidate 1 times out and
\* candidate 2 succeeds, the result is candidate 2's and candidate 3 is
\* never requested.
C1_OrderedFallback ==
  /\ Len(requested) <= Len(models)
  /\ \A k \in 1..Len(requested) :
       /\ requested[k] = k
       /\ Len(attempts) >= k - 1
       /\ \A j \in 1..(k - 1) :
            attempts[j].model = j /\ attempts[j].outcome \in FailureKinds
  /\ \A k \in 1..Len(attempts) : attempts[k].outcome = "ok" =>
       /\ k = Len(attempts)
       /\ pc = "done"
       /\ requested = [j \in 1..k |-> j]
       /\ result.status = "returned"
       /\ result.model = k
       /\ result.value = IF req.op = "followup"
                         THEN ParseQuestions(ModelReply(k)) ELSE ModelReply(k)
  /\ ( /\ Len(attempts) >= 2
       /\ attempts[1].outcome = "timeout"
       /\ attempts[2].outcome = "ok" ) =>
       result.model = 2 /\ requested = <<1, 2>>

C1_Witness ==
  /\ pc = "done"
  /\ req.op = "followup"
  /\ attempts = << [model |-> 1, outcome |-> "timeout"],
                   [model |-> 2, outcome |-> "ok"] >>
  /\ requested = <<1, 2>>
  /\ result.model = 2

\* all three candidates were requested and failed
AllCandidatesFailed ==
  /\ pc = "done"
  /\ Len(attempts) = Len(models)
  /\ \A k \in 1..Len(attempts) : attempts[k].outcome \in FailureKinds

\* C2: when all three candidates fail, chat completion, analyzeDocument and
\* improveSection end in a raised failure that carries the last candidate's
\* error, and generateFollowUpQuestions returns an empty list; and
\* generateFollowUpQuestions never raises.
C2_TerminalOutcome ==
  /\ AllCandidatesFailed =>
       IF req.op = "followup"
       THEN result.status = "returned" /\ result.value = <<>>
       ELSE /\ result.status = "raised"
            /\ result.error.kind = attempts[Len(models)].outcome
            /\ result.error.model = Len(models)
  /\ (pc = "done" /\ req.op = "followup") => result.status = "returned"

C2_Witness ==
  /\ AllCandidatesFailed
  /\ req.op = "chat"
  /\ attempts[3].outcome = "timeout"
  /\ result.status = "raised"
  /\ result.error = [kind |-> "timeout", model |-> 3, wrapped |-> TRUE]

\* a fallback invocation is under way
InFallbackLoop == pc \in {"request", "race", "body"}

\* C3: every fallback invocation eventually terminates, whatever the
\* candidates' endpoints do, also when an endpoint stalls forever before
\* answering or while its response body is being read.
C3_EveryInvocationTerminates == InFallbackLoop ~> (pc = "done")

\* the invocations whose whole request is raced against the timer
\* (generateResponse) do terminate under FairSpec
ClientInvocationTerminates ==
  (InFallbackLoop /\ req.op = "chat") ~> (pc = "done")

(***************************************************************************)
(* Properties of chatWithPDF (checked under Spec).                         *)
(***************************************************************************)
\* the classification of the query of the request being served
Classified == detectPageSpecificQuery(req.query)

\* C4: a chat query classified page-specific that comes with a fileId and
\* whose page retrieval returns zero chunks ends in the 'no content on page
\* N' result (chunksUsed 0, isPageSpecific true, targetPage N) and no model
\* request is issued.
C4_EmptyPageShortCircuit ==
  ( /\ req.op = "chat"
    /\ pc # "idle"
    /\ Classified.isPageSpecific
    /\ req.fileId # NoFile
    /\ relevantChunks = <<>> ) =>
    /\ pc = "done"
    /\ result.status = "returned"
    /\ result.value = <<>>
    /\ result.chunksUsed = 0
    /\ result.isPageSpecific
    /\ result.targetPage = Classified.pageNumber
    /\ requested = <<>>
    /\ attempts = <<>>

C4_Witness ==
  /\ pc = "done"
  /\ req.op = "chat"
  /\ req.fileId = 1
  /\ uploads >= 1
  /\ docs[1] = DocA
  /\ Classified = [isPageSpecific |-> TRUE, pageNumber |-> 2]
  /\ calls[1].call = "searchByFileIdAndPage"
  /\ relevantChunks = <<>>
  /\ result.chunksUsed = 0
  /\ result.targetPage = 2
  /\ requested = <<>>

SearchCalls == {"searchByFileIdAndPage", "searchByFileId", "searchSimilar"}

\* C5: chatWithPDF performs exactly one retrieval per query: page-specific
\* with a fileId -> searchByFileIdAndPage(fileId, page) with limit 10;
\* a fileId and not page-specific -> searchByFileId(fileId) with limit 10;
\* no fileId (also when the query names a page) -> the query is embedded,
\* then searchSimilar(vector) with limit 5 and no filter.
C5_RoutingTable ==
  (req.op = "chat" /\ pc # "idle") =>
    /\ Cardinality({ k \in 1..Len(calls) : calls[k].call \in SearchCalls }) = 1
    /\ IF req.fileId # NoFile /\ Classified.isPageSpecific
       THEN calls = << [call |-> "searchByFileIdAndPage", fileId |-> req.fileId,
                        page |-> Classified.pageNumber, limit |-> 10] >>
       ELSE IF req.fileId # NoFile
       THEN calls = << [call |-> "searchByFileId", fileId |-> req.fileId,
                        page |-> Null, limit |-> 10] >>
       ELSE calls = << [call |-> "getQueryEmbedding", fileId |-> NoFile,
                        page |-> Null, limit |-> Undefined],
                       [call |-> "searchSimilar", fileId |-> NoFile,
                        page |-> Null, limit |-> 5] >>

C5_Witness ==
  /\ req.op = "chat"
  /\ pc = "race"
  /\ req.fileId = NoFile
  /\ Classified.isPageSpecific
  /\ Len(calls) = 2
  /\ calls[2].call = "searchSimilar"
  /\ calls[2].limit = 5
  /\ Len(relevantChunks) = 5

\* the words are a run of consecutive words of the text
IsRunOf(words, text) ==
  LET all == Split(text)
  IN /\ words # <<>>
     /\ \E a \in { b \in 1..Len(all) : all[b] = words[1] } :
          /\ a + Len(words) - 1 <= Len(all)
          /\ SubSeq(all, a, a + Len(words) - 1) = words

\* C6: after a document has been chunked and stored under a fileId, a
\* page-specific query for page N with that fileId hands the model only
\* chunks of that file with pageNumber = N (page chunks holding words of
\* page N), and yields the empty-page response when page N has empty text
\* or N exceeds the page count.
C6_PageQueryEndToEnd ==
  ( /\ req.op = "chat"
    /\ pc # "idle"
    /\ req.fileId \in 1..uploads
    /\ Classified.isPageSpecific ) =>
    LET n   == Classified.pageNumber
        doc == docs[req.fileId]
    IN /\ \A k \in 1..Len(relevantChunks) :
            /\ relevantChunks[k].metadata.fileId = req.fileId
            /\ relevantChunks[k].metadata.pageNumber = n
            /\ relevantChunks[k].metadata.section = "page_content"
            /\ relevantChunks[k].content.kind = "Page"
            /\ relevantChunks[k].content.number = n
            /\ n <= Len(doc.pages)
            /\ IsRunOf(relevantChunks[k].content.words, doc.pages[n].text)
       /\ pc \in {"request", "race"} =>
            context.items = [k \in 1..Len(relevantChunks) |-> relevantChunks[k].content]
       /\ (n > Len(doc.pages) \/ ~TrimNonEmpty(doc.pages[n].text)) =>
            /\ pc = "done"
            /\ result = Returned(<<>>, 0, 0, TRUE, n)
            /\ requested = <<>>

C6_Witness ==
  /\ req.op = "chat"
  /\ pc = "race"
  /\ req.fileId = 2
  /\ docs = <<DocA, DocB>>
  /\ Classified = [isPageSpecific |-> TRUE, pageNumber |-> 2]
  /\ Len(relevantChunks) = 2
  /\ relevantChunks[2].metadata.chunkPart = 2
  /\ Len(context.items) = 2

(***************************************************************************)
(* SearchSpec: VectorDBService.searchSimilar(queryEmbedding, limit,        *)
(* filter) against an index that holds the chunks of one document.  A      *)
(* query embedding is an array of numbers or some other value; a filter is *)
(* null or a condition on fileId.                                          *)
(***************************************************************************)
\* the longest query vector explored
MaxVectorLen == 4

RECURSIVE VectorsOfLen(_)
VectorsOfLen(n) ==
  IF n = 0 THEN { <<>> }
  ELSE { Append(v, x) : v \in VectorsOfLen(n - 1), x \in {0, 1} }

QueryVectors ==
  { [isArray |-> TRUE, entries |-> v] :
      v \in UNION { VectorsOfLen(n) : n \in 0..MaxVectorLen } }
    \cup { [isArray |-> FALSE, entries |-> <<>>] }

\* filter = null
NoFilter == [present |-> FALSE, fileId |-> NoFile]

SearchFilters == { NoFilter, [present |-> TRUE, fileId |-> 1] }

\* queryEmbedding.every((val) => val === 0)
isZeroVector(queryEmbedding) ==
  \A k \in 1..Len(queryEmbedding.entries) : queryEmbedding.entries[k] = 0

\* a guard that returns empty results for a zero vector even with a filter
ZeroVectorGuard_IgnoresFilter(queryEmbedding, filter) ==
  isZeroVector(queryEmbedding)

\* if (isZeroVector && !filter): no meaningful search
ZeroVectorGuard(queryEmbedding, filter) ==
  isZeroVector(queryEmbedding) /\ ~filter.present

\* searchSimilar returns [] before it reaches client.search
SearchSkipped(queryEmbedding, filter) ==
  \/ ~queryEmbedding.isArray
  \/ ZeroVectorGuard(queryEmbedding, filter)

\* the results of client.search: the `limit` best-ranked points among
\* those the filter admits
SearchResults(filter, limit, ranking) ==
  LET admitted == IF filter.present
                  THEN { pt \in points : FileFilter(filter.fileId, pt.payload) }
                  ELSE points
      ranked == IF ranking = "ascending" THEN SearchHits(admitted)
                ELSE Reverse(SearchHits(admitted))
  IN SubSeq(ranked, 1, Min(limit, Len(ranked)))

SearchInit ==
  /\ sArgs \in { [queryEmbedding |-> v, limit |-> limit, filter |-> filter] :
                   v \in QueryVectors, limit \in {1, 5},
                   filter \in SearchFilters }
  /\ sOut = NoOutcome
  /\ sPc = "input"
  /\ points = storeEmbeddings(chunkAndEmbed(DocA, 1), 1)
  /\ uploads = 1
  /\ docs = << DocA >>
  /\ CreateIdle
  /\ UploadIdle
  /\ ChunkIdle
  /\ DetectIdle
  /\ RequestIdle
  /\ ServiceIdle

\* searchSimilar returns [] without a search
SearchSimilarSkips ==
  /\ sPc = "input"
  /\ SearchSkipped(sArgs.queryEmbedding, sArgs.filter)
  /\ sOut' = [status |-> "returned", value |-> <<>>, searchIssued |-> FALSE]
  /\ sPc' = "searched"
  /\ UNCHANGED <<sArgs, createVars, uploadVars, chunkVars, detectVars,
                 storeVars, reqVars, serviceVars>>

\* searchSimilar issues client.search and returns the mapped results
SearchSimilarSearches ==
  /\ sPc = "input"
  /\ ~SearchSkipped(sArgs.queryEmbedding, sArgs.filter)
  /\ \E ranking \in Rankings :
       sOut' = [status |-> "returned",
                value |-> SearchResults(sArgs.filter, sArgs.limit, ranking),
                searchIssued |-> TRUE]
  /\ sPc' = "searched"
  /\ UNCHANGED <<sArgs, createVars, uploadVars, chunkVars, detectVars,
                 storeVars, reqVars, serviceVars>>

\* searchSimilar issues client.search, which fails: the error is rethrown
SearchSimilarFails ==
  /\ sPc = "input"
  /\ ~SearchSkipped(sArgs.queryEmbedding, sArgs.filter)
  /\ sOut' = [status |-> "threw", value |-> <<>>, searchIssued |-> TRUE]
  /\ sPc' = "searched"
  /\ UNCHANGED <<sArgs, createVars, uploadVars, chunkVars, detectVars,
                 storeVars, reqVars, serviceVars>>

SearchNext == SearchSimilarSkips \/ SearchSimilarSearches \/ SearchSimilarFails

SearchSpec == SearchInit /\ [][SearchNext]_vars

\* the query embedding is an array whose entries are all zero
AllZero(queryEmbedding) ==
  /\ queryEmbedding.isArray
  /\ \A k \in 1..Len(queryEmbedding.entries) : queryEmbedding.entries[k] = 0

\* C18: searchSimilar with an all-zero query vector and no filter returns
\* an empty result without issuing a search and without raising; with a
\* filter, or with a non-zero entry, the search is issued.
C18_ZeroVectorShortCircuit ==
  sPc = "searched" =>
    /\ (AllZero(sArgs.queryEmbedding) /\ ~sArgs.filter.present) =>
         /\ sOut.status = "returned"
         /\ sOut.value = <<>>
         /\ ~sOut.searchIssued
    /\ (sArgs.queryEmbedding.isArray
          /\ (sArgs.filter.present \/ ~AllZero(sArgs.queryEmbedding))) =>
         sOut.searchIssued

\* a zero vector of four entries with a filter was searched and gave
\* results
C18_WitnessFiltered ==
  /\ sPc = "searched"
  /\ sArgs.queryEmbedding = [isArray |-> TRUE, entries |-> <<0, 0, 0, 0>>]
  /\ sArgs.filter.present
  /\ sOut.searchIssued
  /\ sOut.status = "returned"
  /\ Len(sOut.value) = 5

\* a zero vector without a filter gave the empty result
C18_Witness ==
  /\ sPc = "searched"
  /\ sArgs.queryEmbedding = [isArray |-> TRUE, entries |-> <<0, 0, 0>>]
  /\ ~sArgs.filter.present
  /\ sOut = [status |-> "returned", value |-> <<>>, searchIssued |-> FALSE]

(***************************************************************************)
(* PipelineSpec: one POST /api/pdf/upload request taken stage by stage     *)
(* (processPDF: uploadPDF, parsePDF, extractStructuredData; chunkAndEmbed: *)
(* generateEmbeddings batch by batch; initializeCollection;                *)
(* storeEmbeddings), together with the abort detection middleware: the     *)
(* client may disconnect and the request timeout may fire at any moment.   *)
(* The document is given by its number of chunks; the vector the           *)
(* capability computes for the chunk at position k is Vector(k).           *)
(***************************************************************************)
\* the largest number of chunks of the uploaded document
MaxChunks == 11

\* const batchSize = 5
batchSize == 5

\* new Array(384).fill(0.1)
fallbackSize == 384

\* the vector the embedding capability computes for the chunk at position k
Vector(k) == [size |-> fallbackSize, of |-> k]

\* new Array(384).fill(0.1), the same value for every chunk
FallbackVector == [size |-> fallbackSize, of |-> 0]

\* a vector of the capability that belongs to no text of the batch
StrayVector == [size |-> fallbackSize, of |-> Undefined]

\* embeddings[index] of an index beyond the array: undefined
NoVector == [size |-> 0, of |-> Undefined]

\* how the capability may answer a batch: one vector per text, a rejection,
\* no answer within the timeout, an array that lacks the last text's
\* vector, an array with one vector too many, a value that is not an array
BatchReplies == {"vectors", "error", "timeout", "short", "long", "object"}

\* chunks.slice(i, i + batchSize), as the positions of the chunks
BatchOf(i, n) == [k \in 1..(Min(i + batchSize, n) - i) |-> i + k]

\* the 1-based number of the batch that holds the chunk at position k
BatchNumber(k) == ((k - 1) \div batchSize) + 1

\* a fallback that substitutes one vector for the whole batch
FallbackEmbeddings_One(texts) == << FallbackVector >>

\* texts.map(() => new Array(384).fill(0.1))
FallbackEmbeddings(texts) == [k \in 1..Len(texts) |-> FallbackVector]

\* what getBatchEmbeddings(texts) returns for a reply of the capability
getBatchEmbeddings(texts, reply) ==
  CASE reply = "vectors" -> [k \in 1..Len(texts) |-> Vector(texts[k])]
    [] reply = "short" -> [k \in 1..(Len(texts) - 1) |-> Vector(texts[k])]
    [] reply = "long" -> [k \in 1..Len(texts) |-> Vector(texts[k])]
                           \o << StrayVector >>
    [] reply = "object" -> << StrayVector >>
    [] reply \in {"error", "timeout"} -> FallbackEmbeddings(texts)

\* embeddings[index] as chunkAndEmbed reads it for the chunk at position k
EmbeddingAt(embeddings, k) ==
  IF k <= Len(embeddings) THEN embeddings[k] ELSE NoVector

\* a pause after every batch, the last one included
DelayAfterBatch_Always(i, n) == TRUE

\* if (i + batchSize < chunks.length) await new Promise(... setTimeout 100)
DelayAfterBatch(i, n) == i + batchSize < n

\* a check that never sees the signal
ObservesAbort_Never(isAborted) == FALSE

\* if (signal && signal.aborted)
ObservesAbort(isAborted) == isAborted

\* new Error("Request aborted by client"), as thrown by generateEmbeddings
\* and storeEmbeddings
AbortedError == [name |-> "Error", message |-> "Request aborted by client"]

\* new Error(`PDF processing failed: ${error.message}`) of processPDF
ProcessingFailed(error) ==
  [name |-> "Error", message |-> "PDF processing failed: " \o error.message]

\* the rejection of a stage that failed
StageError == [name |-> "Error", message |-> "stage failed"]

\* the responses of the handlers
Success == [status |-> 200, body |-> "PDF processed successfully"]

RequestTimedOut == [status |-> 408, body |-> "Request timeout"]

\* res.status(500).json({ error: "Failed to process PDF",
\*                        message: error.message })
ServerError(error) ==
  [status |-> 500, body |-> "Failed to process PDF",
   message |-> error.message]

\* the route's test for a cancellation: error.name === "AbortError"
IsCancellation(error) == error.name = "AbortError"

\* the catch block of the route for the error it received
RouteCatches(error) ==
  /\ uPc' = "done"
  /\ IF IsCancellation(error)
     THEN /\ uError' = [status |-> "threw", value |-> error,
                        handledAs |-> "cancellation"]
          /\ UNCHANGED <<responses, headersSent>>
     ELSE /\ uError' = [status |-> "threw", value |-> error,
                        handledAs |-> "failure"]
          /\ IF ~headersSent
             THEN /\ responses' = Append(responses, ServerError(error))
                  /\ headersSent' = TRUE
             ELSE UNCHANGED <<responses, headersSent>>

\* a signal check at a stage boundary: throws when it observes the abort,
\* lets the request go on to the next stage otherwise
SignalCheck(name, error, next) ==
  IF ObservesAbort(aborted)
  THEN /\ RouteCatches(error)
       /\ UNCHANGED uChecks
  ELSE /\ uPc' = next
       /\ uChecks' = Append(uChecks, name)
       /\ UNCHANGED <<responses, headersSent, uError>>

\* a stage of the request rejected: the route's catch receives the error
StageFails(error) ==
  /\ RouteCatches(error)
  /\ UNCHANGED uChecks

PipelineInit ==
  /\ uChunks \in 1..MaxChunks
  /\ uPc = "processPDF"
  /\ uBatch = 0
  /\ uEmbeddings = <<>>
  /\ uReplies = <<>>
  /\ uChecks = <<>>
  /\ aborted = FALSE
  /\ connection = "open"
  /\ headersSent = FALSE
  /\ responses = <<>>
  /\ uError = NoOutcome
  /\ upserted = {}
  /\ uTrace = <<>>
  /\ CreateIdle
  /\ SearchIdle
  /\ ChunkIdle
  /\ DetectIdle
  /\ StoreIdle
  /\ RequestIdle
  /\ ServiceIdle

\* processPDF is entered: the first signal check
ProcessStart ==
  /\ uPc = "processPDF"
  /\ SignalCheck("start", ProcessingFailed(AbortedError), "uploadPDF")
  /\ UNCHANGED <<uChunks, uBatch, uEmbeddings, uReplies, aborted, connection,
                 upserted, uTrace, createVars, searchVars, chunkVars, detectVars,
                 storeVars, reqVars, serviceVars>>

\* uploadPDF settles; the signal check after upload
UploadPDFDone ==
  /\ uPc = "uploadPDF"
  /\ \E ok \in BOOLEAN :
       IF ok THEN SignalCheck("after upload", ProcessingFailed(AbortedError),
                              "parsePDF")
       ELSE StageFails(ProcessingFailed(StageError))
  /\ UNCHANGED <<uChunks, uBatch, uEmbeddings, uReplies, aborted, connection,
                 upserted, uTrace, createVars, searchVars, chunkVars, detectVars,
                 storeVars, reqVars, serviceVars>>

\* parsePDF settles; the signal check after parsing
ParsePDFDone ==
  /\ uPc = "parsePDF"
  /\ \E ok \in BOOLEAN :
       IF ok THEN SignalCheck("after parse", ProcessingFailed(AbortedError),
                              "extractStructuredData")
       ELSE StageFails(ProcessingFailed(StageError))
  /\ UNCHANGED <<uChunks, uBatch, uEmbeddings, uReplies, aborted, connection,
                 upserted, uTrace, createVars, searchVars, chunkVars, detectVars,
                 storeVars, reqVars, serviceVars>>

\* extractStructuredData resolves (it falls back on every error); the
\* signal check after structured extraction; postProcessStructuredData,
\* createChunks and the entry of generateEmbeddings follow without a pause
ExtractDone ==
  /\ uPc = "extractStructuredData"
  /\ SignalCheck("after extract", ProcessingFailed(AbortedError), "batch")
  /\ UNCHANGED <<uChunks, uBatch, uEmbeddings, uReplies, aborted, connection,
                 upserted, uTrace, createVars, searchVars, chunkVars, detectVars,
                 storeVars, reqVars, serviceVars>>

\* generateEmbeddings, top of the loop body: the signal check before the
\* batch, then the request of the batch
BatchCheck ==
  /\ uPc = "batch"
  /\ uBatch < uChunks
  /\ SignalCheck("before batch", AbortedError, "getBatchEmbeddings")
  /\ uTrace' = IF ObservesAbort(aborted) THEN uTrace
               ELSE Append(uTrace, [event |-> "request",
                                    texts |-> BatchOf(uBatch, uChunks)])
  /\ UNCHANGED <<uChunks, uBatch, uEmbeddings, uReplies, aborted, connection,
                 upserted, createVars, searchVars, chunkVars, detectVars,
                 storeVars, reqVars, serviceVars>>

\* getBatchEmbeddings returns: its vectors are pushed, the loop goes on to
\* the next batch or generateEmbeddings and chunkAndEmbed return and the
\* route calls initializeCollection
BatchReturns ==
  /\ uPc = "getBatchEmbeddings"
  /\ \E reply \in BatchReplies :
       /\ uEmbeddings' = uEmbeddings
                           \o getBatchEmbeddings(BatchOf(uBatch, uChunks), reply)
       /\ uReplies' = Append(uReplies, reply)
  /\ uTrace' = Append(uTrace, [event |-> "reply",
                               texts |-> BatchOf(uBatch, uChunks)])
                 \o (IF DelayAfterBatch(uBatch, uChunks)
                     THEN << [event |-> "delay", texts |-> <<>>] >> ELSE <<>>)
  /\ uBatch' = uBatch + batchSize
  /\ uPc' = IF uBatch + batchSize < uChunks THEN "batch"
            ELSE "initializeCollection"
  /\ UNCHANGED <<uChunks, uChecks, aborted, connection, headersSent, responses,
                 uError, upserted, createVars, searchVars, chunkVars,
                 detectVars, storeVars, reqVars, serviceVars>>

\* initializeCollection settles; storeEmbeddings checks the signal, maps
\* the embeddings to points and issues client.upsert
InitializeCollectionDone ==
  /\ uPc = "initializeCollection"
  /\ \E ok \in BOOLEAN :
       IF ok THEN SignalCheck("before store", AbortedError, "upsert")
       ELSE StageFails(StageError)
  /\ UNCHANGED <<uChunks, uBatch, uEmbeddings, uReplies, aborted, connection,
                 upserted, uTrace, createVars, searchVars, chunkVars, detectVars,
                 storeVars, reqVars, serviceVars>>

\* an upsert that writes the points of the first batch only
PointsWritten_FirstBatch(embeddings, n) ==
  { [chunk |-> k, vector |-> EmbeddingAt(embeddings, k)] :
      k \in 1..Min(batchSize, n) }

\* client.upsert(collectionName, { points }): one request with a point for
\* every chunk
PointsWritten(embeddings, n) ==
  { [chunk |-> k, vector |-> EmbeddingAt(embeddings, k)] : k \in 1..n }

\* client.upsert settles: the points are in the index and the route sends
\* its response (res.json throws when the headers have been sent), or the
\* upsert failed
UpsertDone ==
  /\ uPc = "upsert"
  /\ \E ok \in BOOLEAN :
       IF ok
       THEN /\ upserted' = PointsWritten(uEmbeddings, uChunks)
            /\ IF headersSent
               THEN RouteCatches([name |-> "Error",
                                  message |-> "headers already sent"])
               ELSE /\ responses' = Append(responses, Success)
                    /\ headersSent' = TRUE
                    /\ uPc' = "done"
                    /\ UNCHANGED uError
       ELSE /\ RouteCatches(StageError)
            /\ UNCHANGED upserted
  /\ UNCHANGED <<uChunks, uBatch, uEmbeddings, uReplies, uChecks, aborted,
                 connection, uTrace, createVars, searchVars, chunkVars, detectVars,
                 storeVars, reqVars, serviceVars>>

\* res.on("close") before the route finished: the client disconnected;
\* the controller aborts unless a response has been sent
ClientDisconnects ==
  /\ uPc \notin {"idle", "done"}
  /\ connection = "open"
  /\ connection' = "closed"
  /\ IF responses = <<>>
     THEN /\ aborted' = TRUE
          /\ uChecks' = Append(uChecks, "abort")
     ELSE UNCHANGED <<aborted, uChecks>>
  /\ UNCHANGED <<uChunks, uPc, uBatch, uEmbeddings, uReplies, headersSent,
                 responses, uError, upserted, uTrace, createVars, searchVars, chunkVars,
                 detectVars, storeVars, reqVars, serviceVars>>

\* the request timeout (10 minutes) fires before any response was sent: the
\* controller aborts and 408 is sent
RequestTimeout ==
  /\ uPc \notin {"idle", "done"}
  /\ connection = "open"
  /\ responses = <<>>
  /\ ~headersSent
  /\ aborted' = TRUE
  /\ uChecks' = Append(uChecks, "abort")
  /\ responses' = Append(responses, RequestTimedOut)
  /\ headersSent' = TRUE
  /\ UNCHANGED <<uChunks, uPc, uBatch, uEmbeddings, uReplies, connection,
                 uError, upserted, uTrace, createVars, searchVars, chunkVars,
                 detectVars, storeVars, reqVars, serviceVars>>

PipelineNext ==
  \/ ProcessStart
  \/ UploadPDFDone
  \/ ParsePDFDone
  \/ ExtractDone
  \/ BatchCheck
  \/ BatchReturns
  \/ InitializeCollectionDone
  \/ UpsertDone
  \/ ClientDisconnects
  \/ RequestTimeout

PipelineSpec == PipelineInit /\ [][PipelineNext]_vars

(***************************************************************************)
(* Properties of the upload pipeline (checked under PipelineSpec).         *)
(***************************************************************************)
\* generateEmbeddings has returned: its loop ran to the end
Embedded == uChunks > 0 /\ uBatch >= uChunks

\* C16: whatever the capability answers, generateEmbeddings returns one
\* vector per chunk in input order: the vector at position k is the one
\* computed for chunk k or the fallback substituted for it, so chunkAndEmbed
\* pairs no chunk with another chunk's vector or with no vector.
C16_OneVectorPerChunkInOrder ==
  Embedded =>
    /\ Len(uEmbeddings) = uChunks
    /\ \A k \in 1..uChunks :
         EmbeddingAt(uEmbeddings, k) \in {Vector(k), FallbackVector}

\* every batch so far was answered with one vector per text or not at all
RepliesFailOrSucceed ==
  \A b \in 1..Len(uReplies) : uReplies[b] \in {"vectors", "error", "timeout"}

\* the request of the batch failed or timed out
BatchFailed(b) == uReplies[b] \in {"error", "timeout"}

\* C17: when batches fail or time out, exactly the chunks of those batches
\* have the fallback vector (fallbackSize entries of 0.1), the chunks of
\* every other batch have the vectors the capability returned for them, and
\* no failed batch stops the pipeline: once a batch was requested, the
\* embedding stage ends early only on an abort.
C17_FailedBatchesGetFallback ==
  /\ (Embedded /\ RepliesFailOrSucceed) =>
       /\ Len(uEmbeddings) = uChunks
       /\ \A k \in 1..uChunks :
            uEmbeddings[k] = IF BatchFailed(BatchNumber(k)) THEN FallbackVector
                             ELSE Vector(k)
       /\ FallbackVector.size = fallbackSize
  /\ (uPc = "done" /\ uReplies # <<>> /\ ~Embedded) =>
       /\ uError.status = "threw"
       /\ uError.value = AbortedError
       /\ aborted

\* of three batches the second timed out and the others were answered
C17_Witness ==
  /\ Embedded
  /\ uChunks = 2 * batchSize + 1
  /\ uReplies = <<"vectors", "timeout", "vectors">>
  /\ uEmbeddings[batchSize] = Vector(batchSize)
  /\ uEmbeddings[batchSize + 1] = FallbackVector
  /\ uEmbeddings[2 * batchSize] = FallbackVector
  /\ uEmbeddings[2 * batchSize + 1] = Vector(2 * batchSize + 1)
  /\ uPc = "upsert"

\* the signal checks a request passes when nothing stops it
AllChecks(n) ==
  <<"start", "after upload", "after parse", "after extract">>
    \o [b \in 1..BatchNumber(n) |-> "before batch"]
    \o <<"before store">>

\* the entries of the log that are signal checks
RECURSIVE ChecksOf(_)
ChecksOf(log) ==
  IF log = <<>> THEN <<>>
  ELSE (IF Head(log) = "abort" THEN <<>> ELSE << Head(log) >>)
       \o ChecksOf(Tail(log))

\* the signal became aborted before storeEmbeddings made its check
AbortedBeforeStore ==
  \E k \in 1..Len(uChecks) :
    /\ uChecks[k] = "abort"
    /\ \A j \in 1..(k - 1) : uChecks[j] # "before store"

\* C19: if the signal becomes aborted before the store stage begins, no
\* point of the upload is ever upserted; the signal is checked at the start,
\* after upload, after parse, after structuring, before every embedding
\* batch and before the upsert, and the first check after the abort stops
\* the pipeline.
C19_AbortBeforeStoreLeavesNoPoints ==
  /\ AbortedBeforeStore =>
       /\ upserted = {}
       /\ uPc # "upsert"
       /\ \A k \in 1..Len(uChecks) : uChecks[k] = "abort" => k = Len(uChecks)
  /\ (uPc = "upsert" \/ upserted # {}) =>
       ChecksOf(uChecks) = AllChecks(uChunks)
  /\ \E m \in 0..Len(AllChecks(uChunks)) :
       ChecksOf(uChecks) = SubSeq(AllChecks(uChunks), 1, m)

\* the client disconnected during the second embedding batch and the
\* check before the third batch stopped the request
C19_Witness ==
  /\ uPc = "done"
  /\ uChunks = 2 * batchSize + 1
  /\ connection = "closed"
  /\ uChecks = <<"start", "after upload", "after parse", "after extract",
                 "before batch", "before batch", "abort">>
  /\ uError.status = "threw"
  /\ uError.value = AbortedError
  /\ upserted = {}

\* the pipeline stopped at a signal check because the client disconnected
StoppedByDisconnect ==
  /\ uPc = "done"
  /\ uError.status = "threw"
  /\ uError.value \in {AbortedError, ProcessingFailed(AbortedError)}
  /\ connection = "closed"
  /\ RequestTimedOut \notin { responses[k] : k \in 1..Len(responses) }

\* C20: when the pipeline stops because the client disconnected, the route
\* treats the error as a cancellation and sends no error response.
C20_CancellationIsNotFailure ==
  StoppedByDisconnect =>
    /\ uError.handledAs = "cancellation"
    /\ ServerError(uError.value) \notin
         { responses[k] : k \in 1..Len(responses) }

\* the stored points the retrieval of a file-scoped or page-specific chat
\* request matches
RetrievalMatches(request) ==
  LET pageQueryResult == detectPageSpecificQuery(request.query)
  IN IF Route(pageQueryResult.isPageSpecific, request.fileId) = "page"
     THEN { pt \in points : PageFilter(request.fileId,
                                        pageQueryResult.pageNumber, pt.payload) }
     ELSE { pt \in points : FileFilter(request.fileId, pt.payload) }

\* chatWithPDF has just run the retrieval of a chat query that has a fileId
\* and the index failed: no chunk came back although stored points match
\* (a scroll that succeeds returns at least one of them)
IndexFailedInRetrieval ==
  /\ pc = "idle"
  /\ pc' # "idle"
  /\ req'.op = "chat"
  /\ req'.fileId # NoFile
  /\ relevantChunks' = <<>>
  /\ RetrievalMatches(req') # {}

\* C25: a failure of the vector index during the retrieval of a chat query
\* is propagated: chatWithPDF raises and no model candidate is invoked.
C25_IndexFailurePropagates ==
  [][IndexFailedInRetrieval =>
       /\ pc' = "done"
       /\ result'.status = "raised"
       /\ requested' = requested]_vars

\* the number of requests the embedding of n chunks takes: ceil(n / batchSize)
BatchCount(n) == (n + batchSize - 1) \div batchSize

\* the b-th consecutive group of at most batchSize chunks of n chunks
ChunkGroup(b, n) ==
  [k \in 1..(Min(b * batchSize, n) - (b - 1) * batchSize) |->
     (b - 1) * batchSize + k]

RECURSIVE BatchSchedule(_, _)
\* requests, replies and delays of batches b..BatchCount(n), one batch after
\* another, a delay after every batch but the last
BatchSchedule(b, n) ==
  IF b > BatchCount(n) THEN <<>>
  ELSE << [event |-> "request", texts |-> ChunkGroup(b, n)],
          [event |-> "reply", texts |-> ChunkGroup(b, n)] >>
       \o (IF b < BatchCount(n) THEN << [event |-> "delay", texts |-> <<>>] >>
           ELSE <<>>)
       \o BatchSchedule(b + 1, n)

IsPrefix(s, t) == Len(s) <= Len(t) /\ SubSeq(t, 1, Len(s)) = s

\* C30: for n chunks generateEmbeddings issues exactly ceil(n / 5) requests,
\* one per consecutive group of at most 5 chunks in input order, each
\* requested only after the previous one has returned, with the inter-batch
\* delay after every batch except the last.
C30_BatchesSequentialWithDelayBetween ==
  /\ IsPrefix(uTrace, BatchSchedule(1, uChunks))
  /\ Embedded => uTrace = BatchSchedule(1, uChunks)
  /\ Embedded =>
       Cardinality({i \in DOMAIN uTrace : uTrace[i].event = "request"})
         = BatchCount(uChunks)

\* three batches, the last one shorter, have been embedded
C30_Witness ==
  /\ Embedded
  /\ uChunks > 2 * batchSize
  /\ uChunks % batchSize # 0
  /\ Len(uTrace) = 8

\* the index holds none of the upload's points, or one for every chunk
NoneOrAll ==
  \/ upserted = {}
  \/ { pt.chunk : pt \in upserted } = 1..uChunks

\* the upsert has been issued
UpsertIssued == uPc = "upsert" \/ upserted # {}

FailureAnswered ==
  /\ uPc = "done"
  /\ uError.status = "threw"
  /\ uError.handledAs = "failure"
  /\ \E k \in 1..Len(responses) : responses[k].status = 500

\* C31: when an upload fails because an upstream capability or the vector
\* index failed, the 500 response carries only a generic failure message:
\* the detail text of the underlying error is not in the response body.
\* (The route does not read NODE_ENV, so every run is also a run outside
\* development.)
C31_FailureResponseIsGeneric ==
  FailureAnswered =>
    \A k \in 1..Len(responses) :
      responses[k].status = 500 =>
        responses[k].message # uError.value.message

(***************************************************************************)
(* CollectionSpec: calls of VectorDBService.initializeCollection, in any   *)
(* interleaving of their requests to the index.  Every request may fail    *)
(* because the index is unavailable; client.createCollection of a          *)
(* collection that exists is rejected by the index.                        *)
(***************************************************************************)
\* the number of initializeCollection calls
MaxCallers == 3

\* this.vectorSize = 384
vectorSize == 384

Callers == 1..MaxCallers

\* the payload indexes createCollection creates, in order
payloadIndexes == <<"fileId", "documentType", "section">>

\* client.createCollection is rejected when the collection exists
CreateRejected(existing) == existing.exists

\* the collection client.createCollection creates
CreatedCollection ==
  [exists |-> TRUE, size |-> vectorSize, distance |-> "Cosine", indexes |-> {}]

CollectionInit ==
  /\ collection = NoCollection
  /\ inits = [c \in Callers |-> [pc |-> "getCollections", status |-> "pending",
                                 error |-> "none"]]
  /\ JobsIdle
  /\ MessagesIdle
  /\ OtherIdle
  /\ PipelineIdle
  /\ ChunkIdle
  /\ DetectIdle
  /\ StoreIdle
  /\ RequestIdle

\* the call ends: it returns true or rethrows the error
InitEnds(c, status, error) ==
  inits' = [inits EXCEPT ![c] = [pc |-> "done", status |-> status,
                                 error |-> error]]

\* the call goes on to its next request
InitGoesOn(c, next) == inits' = [inits EXCEPT ![c].pc = next]

\* client.getCollections settles: the call returns when the collection is
\* listed, goes on to createCollection otherwise
GetCollectionsDone(c) ==
  /\ inits[c].pc = "getCollections"
  /\ \E ok \in BOOLEAN :
       IF ~ok THEN InitEnds(c, "threw", "unavailable")
       ELSE IF collection.exists THEN InitEnds(c, "returned", "none")
       ELSE InitGoesOn(c, "createCollection")
  /\ UNCHANGED <<collection, indexVars, messageVars, otherVars, pipelineVars, chunkVars,
                 detectVars, storeVars, reqVars>>

\* client.createCollection settles
CreateCollectionDone(c) ==
  /\ inits[c].pc = "createCollection"
  /\ \E ok \in BOOLEAN :
       IF ~ok
       THEN InitEnds(c, "threw", "unavailable") /\ UNCHANGED collection
       ELSE IF CreateRejected(collection)
       THEN InitEnds(c, "threw", "conflict") /\ UNCHANGED collection
       ELSE InitGoesOn(c, "createPayloadIndex 1")
            /\ collection' = CreatedCollection
  /\ UNCHANGED <<indexVars, messageVars, otherVars, pipelineVars, chunkVars, detectVars,
                 storeVars, reqVars>>

\* the k-th client.createPayloadIndex settles; after the last one
\* createCollection and initializeCollection return
CreatePayloadIndexDone(c, k) ==
  /\ inits[c].pc = CASE k = 1 -> "createPayloadIndex 1"
                     [] k = 2 -> "createPayloadIndex 2"
                     [] k = 3 -> "createPayloadIndex 3"
  /\ \E ok \in BOOLEAN :
       IF ~ok \/ ~collection.exists
       THEN InitEnds(c, "threw", "unavailable") /\ UNCHANGED collection
       ELSE /\ collection' = [collection EXCEPT
                                !.indexes = @ \cup {payloadIndexes[k]}]
            /\ CASE k = 1 -> InitGoesOn(c, "createPayloadIndex 2")
                 [] k = 2 -> InitGoesOn(c, "createPayloadIndex 3")
                 [] k = 3 -> InitEnds(c, "returned", "none")
  /\ UNCHANGED <<indexVars, messageVars, otherVars, pipelineVars, chunkVars, detectVars,
                 storeVars, reqVars>>

CollectionNext ==
  \E c \in Callers :
    \/ GetCollectionsDone(c)
    \/ CreateCollectionDone(c)
    \/ \E k \in 1..Len(payloadIndexes) : CreatePayloadIndexDone(c, k)

CollectionSpec == CollectionInit /\ [][CollectionNext]_vars

\* C21: calls of initializeCollection that run concurrently while the
\* collection is absent all complete without error and leave one
\* collection: no call fails because another call created the collection
\* first.
C21_ConcurrentInitializeSucceeds ==
  \A c \in Callers :
    (inits[c].pc = "done" /\ inits[c].error # "unavailable") =>
      /\ inits[c].status = "returned"
      /\ inits[c].error = "none"
      /\ collection.exists

\* the secondary indexes the collection is specified to have
RequiredIndexes == {"fileId", "documentType", "section", "pageNumber"}

\* C22: whenever a call of initializeCollection returns successfully, the
\* collection exists with vector size 384, cosine distance and payload
\* indexes on fileId, documentType, section and pageNumber.
C22_ReturnedMeansFullyConfigured ==
  \A c \in Callers :
    inits[c].status = "returned" =>
      /\ collection.exists
      /\ collection.size = vectorSize
      /\ collection.distance = "Cosine"
      /\ RequiredIndexes \subseteq collection.indexes

(***************************************************************************)
(* IndexSpec: upload requests served concurrently by the singleton         *)
(* services (uploadPDF, chunkAndEmbed, storeEmbeddings), with searches by  *)
(* file, searches by file and page, and deletes by file against the same   *)
(* index.                                                                  *)
(***************************************************************************)
\* the number of concurrent upload requests
MaxJobs == 2

\* searchByFileId(fileId, 1) of the analyze and suggestions routes
routeLimit == 1

\* searchByFileId(fileId, 10) and searchByFileIdAndPage(fileId, page, 10)
\* of chatWithPDF
chatLimit == 10

Jobs == 1..MaxJobs

ScrollLimits == {routeLimit, chatLimit}

\* the page numbers searched for
PageNumbers == {1, 2}

\* a generator that returns the same identifier to every upload
uuidv4_Repeats(taken) == 1

\* uuidv4(): an identifier no upload has been given yet
uuidv4(taken) == Cardinality(taken) + 1

\* the file identifiers given out so far
TakenFileIds == { jobs[j].fileId : j \in Jobs } \ {NoFile}

\* a filter that matches every point
DeleteFilter_Any(fileId, payload) == TRUE

\* filter = { must: [ fileId = fileId ] } of deleteByFileId
DeleteFilter(fileId, payload) == payload.fileId = fileId

\* the document of the j-th upload request
JobDocument(j) == IF j % 2 = 1 THEN DocA ELSE DocB

IndexInit ==
  /\ jobs = [j \in Jobs |-> [pc |-> "uploadPDF", doc |-> JobDocument(j),
                              fileId |-> NoFile, embeddings |-> <<>>]]
  /\ served = NoOp
  /\ StoreIdle
  /\ CollectionIdle
  /\ MessagesIdle
  /\ OtherIdle
  /\ PipelineIdle
  /\ ChunkIdle
  /\ DetectIdle
  /\ RequestIdle

\* chatService.uploadPDF settles: the upload has its fileId, or failed
JobUploadPDF(j) ==
  /\ jobs[j].pc = "uploadPDF"
  /\ \E ok \in BOOLEAN :
       jobs' = IF ok
               THEN [jobs EXCEPT ![j].pc = "chunkAndEmbed",
                                 ![j].fileId = uuidv4(TakenFileIds)]
               ELSE [jobs EXCEPT ![j].pc = "failed"]
  /\ UNCHANGED <<served, storeVars, collectionVars, messageVars, otherVars, pipelineVars,
                 chunkVars, detectVars, reqVars>>

\* embeddingService.chunkAndEmbed(structuredData, fileId) returns
JobChunkAndEmbed(j) ==
  /\ jobs[j].pc = "chunkAndEmbed"
  /\ jobs' = [jobs EXCEPT ![j].pc = "storeEmbeddings",
                          ![j].embeddings = chunkAndEmbed(jobs[j].doc,
                                                          jobs[j].fileId)]
  /\ UNCHANGED <<served, storeVars, collectionVars, messageVars, otherVars, pipelineVars,
                 chunkVars, detectVars, reqVars>>

\* vectorDBService.storeEmbeddings(embeddings) settles
JobStoreEmbeddings(j) ==
  /\ jobs[j].pc = "storeEmbeddings"
  /\ \E ok \in BOOLEAN :
       IF ok
       THEN /\ points' = points \cup storeEmbeddings(jobs[j].embeddings, j)
            /\ jobs' = [jobs EXCEPT ![j].pc = "done"]
       ELSE /\ jobs' = [jobs EXCEPT ![j].pc = "failed"]
            /\ UNCHANGED points
  /\ UNCHANGED <<served, uploads, docs, collectionVars, messageVars, otherVars,
                 pipelineVars, chunkVars, detectVars, reqVars>>

\* what a search returned or a delete did; n tells one call from the next
Served(call, fileId, pageNumber, limit, ok, out) ==
  [n |-> 1 - served.n, call |-> call, fileId |-> fileId,
   pageNumber |-> pageNumber, limit |-> limit, ok |-> ok, out |-> out]

\* vectorDBService.searchByFileId(fileId, limit)
SearchByFileId ==
  /\ \E fileId \in Jobs, limit \in ScrollLimits, indexUp \in BOOLEAN :
       \E out \in FileHits(fileId, limit, indexUp) :
         served' = Served("searchByFileId", fileId, Undefined, limit, indexUp,
                          out)
  /\ UNCHANGED <<jobs, storeVars, collectionVars, messageVars, otherVars, pipelineVars,
                 chunkVars, detectVars, reqVars>>

\* vectorDBService.searchByFileIdAndPage(fileId, pageNumber, 10)
SearchByFileIdAndPage ==
  /\ \E fileId \in Jobs, pageNumber \in PageNumbers, indexUp \in BOOLEAN :
       \E out \in PageHits(fileId, pageNumber, chatLimit, indexUp) :
         served' = Served("searchByFileIdAndPage", fileId, pageNumber,
                          chatLimit, indexUp, out)
  /\ UNCHANGED <<jobs, storeVars, collectionVars, messageVars, otherVars, pipelineVars,
                 chunkVars, detectVars, reqVars>>

\* vectorDBService.deleteByFileId(fileId): client.delete with the fileId
\* filter; returns true, or rethrows the error of the index
DeleteByFileId ==
  /\ \E fileId \in Jobs, ok \in BOOLEAN :
       /\ served' = Served("deleteByFileId", fileId, Undefined, 0, ok, <<>>)
       /\ points' = IF ok
                    THEN { pt \in points : ~DeleteFilter(fileId, pt.payload) }
                    ELSE points
  /\ UNCHANGED <<jobs, uploads, docs, collectionVars, messageVars, otherVars,
                 pipelineVars, chunkVars, detectVars, reqVars>>

IndexNext ==
  \/ \E j \in Jobs : JobUploadPDF(j)
  \/ \E j \in Jobs : JobChunkAndEmbed(j)
  \/ \E j \in Jobs : JobStoreEmbeddings(j)
  \/ SearchByFileId
  \/ SearchByFileIdAndPage
  \/ DeleteByFileId

IndexSpec == IndexInit /\ [][IndexNext]_vars

\* the mandatory payload fields that may be undefined in a stored point
DefinedMandatoryFields(payload) ==
  /\ payload.documentType # "undefined"
  /\ payload.wordCount # Undefined
  /\ payload.chunkIndex # Undefined
  /\ payload.fileId # NoFile

\* C23: every stored point, of every kind of chunk, has a defined value for
\* each mandatory payload field (content, fileId, documentType, section,
\* chunkIndex, wordCount, embeddingModel, uploadedAt), documentType being
\* the type of the document the chunk comes from.
C23_MandatoryPayloadFieldsDefined ==
  \A pt \in points :
    /\ DefinedMandatoryFields(pt.payload)
    /\ \E j \in Jobs : /\ jobs[j].fileId = pt.payload.fileId
                       /\ jobs[j].doc.documentType = pt.payload.documentType

\* a search was just served
JustServed(kinds) == served'.n # served.n /\ served'.call \in kinds

\* the ids of the hits of a search
HitIds(out) == { out[k].id : k \in DOMAIN out }

\* C24: searchByFileId returns all and only the stored chunks of the file,
\* searchByFileIdAndPage all and only those of the file and the page, each
\* with score 1, whatever the number of chunks stored for the file.
C24_SearchReturnsAllAndOnly ==
  [][JustServed({"searchByFileId", "searchByFileIdAndPage"}) =>
       LET matching ==
             { pt \in points :
                 /\ pt.payload.fileId = served'.fileId
                 /\ served'.call = "searchByFileIdAndPage" =>
                      pt.payload.pageNumber = served'.pageNumber }
       IN /\ HitIds(served'.out) = { pt.id : pt \in matching }
          /\ Len(served'.out) = Cardinality(matching)
          /\ \A k \in DOMAIN served'.out : served'.out[k].score = 1]_vars

\* C26: a deleteByFileId(f) that succeeds leaves no point of file f and
\* every point of the other files as it was; on an index with no point of
\* f (as after a first delete) it changes nothing.
C26_DeleteRemovesExactlyTheFile ==
  [][(JustServed({"deleteByFileId"}) /\ served'.ok) =>
       /\ \A pt \in points' : pt.payload.fileId # served'.fileId
       /\ \A pt \in points :
            pt.payload.fileId # served'.fileId => pt \in points'
       /\ points' \subseteq points
       /\ (\A pt \in points : pt.payload.fileId # served'.fileId) =>
            points' = points]_vars

\* a delete removed the points of a stored file and left those of another
C26_Witness ==
  /\ served.call = "deleteByFileId"
  /\ served.ok
  /\ points # {}
  /\ \A pt \in points : pt.payload.fileId # served.fileId
  /\ \E j \in Jobs : jobs[j].pc = "done" /\ jobs[j].fileId = served.fileId

\* the points an upload stores: one per chunk of its document, each with the
\* upload's fileId, the chunk's position as chunkIndex and the chunk's content
PointsOfUpload(job, pts) ==
  LET chunks == createChunks(job.doc)
  IN /\ Cardinality(pts) = Len(chunks)
     /\ \A pt \in pts : pt.payload.fileId = job.fileId
     /\ \A k \in 1..Len(chunks) :
          \E pt \in pts : /\ pt.payload.chunkIndex = k - 1
                          /\ pt.payload.content = chunks[k].content

\* C28: the points of one upload all carry the same fileId, different from
\* that of every other upload, and chunkIndex is the chunk's position in the
\* upload, also when uploads run concurrently through the same services.
C28_UploadsDoNotMix ==
  [][/\ \A i, j \in Jobs :
          (i # j /\ jobs'[i].fileId # NoFile) =>
            jobs'[i].fileId # jobs'[j].fileId
     /\ \A j \in Jobs :
          (jobs[j].pc = "storeEmbeddings" /\ jobs'[j].pc = "done") =>
            /\ PointsOfUpload(jobs[j], points' \ points)
            /\ \A pt \in points : pt.payload.fileId # jobs[j].fileId]_vars

\* two uploads that ran interleaved have both stored their points
C28_Witness ==
  /\ \A j \in Jobs : jobs[j].pc = "done"
  /\ \E i, j \in Jobs : jobs[i].doc # jobs[j].doc
  /\ \A j \in Jobs :
       PointsOfUpload(jobs[j],
                      { pt \in points : pt.payload.fileId = jobs[j].fileId })

(***************************************************************************)
(* RouteSpec: one request to POST /api/pdf/upload or POST /api/chat/query  *)
(* from its validation to its first calls of external services; for a      *)
(* chat query, generateResponse's message list and its candidates.         *)
(***************************************************************************)
\* the longest chat history of a request
MaxHistory == 7

\* chatHistory.slice(-5)
historyWindow == 5

\* { role: "system", content: this.getSystemPrompt() }
SystemMessage ==
  [role |-> "system", kind |-> "system", turn |-> 0, context |-> 0,
   query |-> <<>>]

\* the k-th turn of a chat history
HistoryTurn(k) ==
  [role |-> IF k % 2 = 1 THEN "user" ELSE "assistant", kind |-> "history",
   turn |-> k, context |-> 0, query |-> <<>>]

\* { role: "user", content: `Context: ${context}\n\nUser Question: ${query}` }
UserMessage(ctx, query) ==
  [role |-> "user", kind |-> "user", turn |-> 0, context |-> ctx,
   query |-> query]

Histories == { [k \in 1..n |-> HistoryTurn(k)] : n \in 0..MaxHistory }

\* the context blocks buildContext may produce
Contexts == {1, 2}

\* req.body of POST /api/chat/query: query absent, empty, blank or a text
QueryBodies ==
  { [chatHistory |-> h] : h \in Histories }
  \cup { [query |-> q, chatHistory |-> h] :
           q \in { <<>>, <<" ">>, <<"x", " ", "x">> }, h \in Histories }

\* the file part of POST /api/pdf/upload: none, or its MIME type
UploadFiles == {"none", "application/pdf", "text/plain"}

Requests ==
  { [route |-> "upload", file |-> f] : f \in UploadFiles }
  \cup { [route |-> "query", body |-> b] : b \in QueryBodies }

\* a history passed on whole
recentHistory_All(chatHistory) == chatHistory

\* chatHistory.slice(-5)
recentHistory(chatHistory) ==
  SubSeq(chatHistory,
         (IF Len(chatHistory) > historyWindow
          THEN Len(chatHistory) - historyWindow ELSE 0) + 1,
         Len(chatHistory))

\* generateResponse: const messages = [system]; push(...recentHistory);
\* push(user turn)
BuildMessages(query, ctx, chatHistory) ==
  <<SystemMessage>> \o recentHistory(chatHistory)
                    \o <<UserMessage(ctx, query)>>

\* query.trim().length === 0
IsBlank(query) == \A k \in DOMAIN query : query[k] = " "

\* !query || query.trim().length === 0
QueryRejected(body) ==
  \/ "query" \notin DOMAIN body
  \/ body.query = <<>>
  \/ IsBlank(body.query)

\* a call of an external service
ExternalCall(call, model, messages) ==
  [call |-> call, model |-> model, messages |-> messages]

\* the handler has ended with the given response status
Responded(status) ==
  mRun' = [mRun EXCEPT !.pc = "done", !.status = status]

RouteInit ==
  /\ mArgs \in Requests
  /\ mRun = [pc |-> "received", cand |-> 0, messages |-> <<>>, status |-> 0]
  /\ mSent = <<>>
  /\ CollectionIdle
  /\ JobsIdle
  /\ OtherIdle
  /\ PipelineIdle
  /\ ChunkIdle
  /\ DetectIdle
  /\ StoreIdle
  /\ RequestIdle

\* upload.single("pdf"): the fileFilter accepts application/pdf; for another
\* MIME type it passes an Error on, which the error-handling middleware of
\* the server answers with 500
UploadFileFilter ==
  /\ mArgs.route = "upload"
  /\ mRun.pc = "received"
  /\ IF mArgs.file \in {"none", "application/pdf"}
     THEN mRun' = [mRun EXCEPT !.pc = "handler"]
     ELSE Responded(500)
  /\ UNCHANGED <<mArgs, mSent, collectionVars, indexVars, otherVars, pipelineVars,
                 chunkVars, detectVars, storeVars, reqVars>>

\* the handler of POST /upload up to the blob upload of processPDF
UploadHandler ==
  /\ mArgs.route = "upload"
  /\ mRun.pc = "handler"
  /\ IF mArgs.file = "none"
     THEN Responded(400) /\ UNCHANGED mSent
     ELSE /\ mRun' = [mRun EXCEPT !.pc = "processPDF"]
          /\ mSent' = Append(mSent, ExternalCall("blob", 0, <<>>))
  /\ UNCHANGED <<mArgs, collectionVars, indexVars, otherVars, pipelineVars, chunkVars,
                 detectVars, storeVars, reqVars>>

\* the handler of POST /query up to the call of chatWithPDF
QueryHandler ==
  /\ mArgs.route = "query"
  /\ mRun.pc = "received"
  /\ IF QueryRejected(mArgs.body)
     THEN Responded(400)
     ELSE mRun' = [mRun EXCEPT !.pc = "retrieval"]
  /\ UNCHANGED <<mArgs, mSent, collectionVars, indexVars, otherVars, pipelineVars,
                 chunkVars, detectVars, storeVars, reqVars>>

\* the retrieval of chatWithPDF settles: it raised (500), or buildContext
\* gives the context and generateResponse builds its messages
RetrievalDone ==
  /\ mRun.pc = "retrieval"
  /\ mSent' = Append(mSent, ExternalCall("index", 0, <<>>))
  /\ \E ok \in BOOLEAN, ctx \in Contexts :
       IF ok
       THEN mRun' = [mRun EXCEPT
                       !.pc = "candidate", !.cand = 1,
                       !.messages = BuildMessages(mArgs.body.query, ctx,
                                                  mArgs.body.chatHistory)]
       ELSE Responded(500)
  /\ UNCHANGED <<mArgs, collectionVars, indexVars, otherVars, pipelineVars, chunkVars,
                 detectVars, storeVars, reqVars>>

\* the chatCompletion request to the current candidate settles
CandidateSettles ==
  /\ mRun.pc = "candidate"
  /\ mSent' = Append(mSent, ExternalCall("model", mRun.cand, mRun.messages))
  /\ \E ok \in BOOLEAN :
       IF ok THEN Responded(200)
       ELSE IF mRun.cand < Len(models)
       THEN mRun' = [mRun EXCEPT !.cand = NextCandidate(mRun.cand)]
       ELSE Responded(500)
  /\ UNCHANGED <<mArgs, collectionVars, indexVars, otherVars, pipelineVars, chunkVars,
                 detectVars, storeVars, reqVars>>

RouteNext ==
  \/ UploadFileFilter
  \/ UploadHandler
  \/ QueryHandler
  \/ RetrievalDone
  \/ CandidateSettles

RouteSpec == RouteInit /\ [][RouteNext]_vars

\* the request has one of the input validation errors
InvalidInput ==
  \/ mArgs.route = "upload" /\ mArgs.file # "application/pdf"
  \/ mArgs.route = "query" /\ QueryRejected(mArgs.body)

\* C27: a request with an input validation error (no file, a MIME type
\* other than application/pdf, a missing or blank query) makes no call of an
\* external service and is answered with a 4xx status.
C27_InvalidInputRejectedWith4xx ==
  InvalidInput =>
    /\ mSent = <<>>
    /\ mRun.pc \in {"received", "handler", "done"}
    /\ mRun.pc = "done" => mRun.status \in 400..499

\* the message lists handed to the candidates tried
SentMessages ==
  { mSent[k].messages : k \in { i \in DOMAIN mSent : mSent[i].call = "model" } }

\* C29: for a chat query with a history of n turns every candidate tried is
\* handed the same list: the system instruction, the last min(5, n) history
\* turns in their order, then one user turn with the context and the query.
C29_MessageListShape ==
  (mArgs.route = "query" /\ SentMessages # {}) =>
    LET h == mArgs.body.chatHistory
        n == Len(h)
        m == Min(5, n)
    IN /\ Cardinality(SentMessages) = 1
       /\ \A msgs \in SentMessages :
            /\ Len(msgs) = m + 2
            /\ msgs[1] = SystemMessage
            /\ \A i \in 1..m : msgs[1 + i] = h[n - m + i]
            /\ msgs[m + 2].role = "user"
            /\ msgs[m + 2].kind = "user"
            /\ msgs[m + 2].query = mArgs.body.query
            /\ msgs[m + 2].context \in Contexts

\* a query with more than five turns of history went to a second candidate
C29_Witness ==
  /\ mArgs.route = "query"
  /\ Len(mArgs.body.chatHistory) > historyWindow
  /\ Cardinality({ k \in DOMAIN mSent : mSent[k].call = "model" }) >= 2

\* C37: the auxiliary operations invoke no model when their retrieval
\* yields nothing to work on: generateFollowUpQuestions returns an empty
\* list and analyzeDocument the 'No document content found' value when the
\* file has no chunks, improveSection the 'Section not found' value when no
\* retrieved chunk's sectionTitle contains the section name.
C37_AuxiliaryShortCircuit ==
  /\ (req.op \in {"followup", "analyze"} /\ pc # "idle"
        /\ relevantChunks = <<>>) =>
       /\ pc = "done"
       /\ requested = <<>>
       /\ attempts = <<>>
       /\ result.status = "returned"
       /\ result.value = IF req.op = "followup" THEN <<>>
                         ELSE <<"No document content found">>
  /\ (req.op = "improve" /\ pc # "idle"
        /\ \A k \in DOMAIN relevantChunks :
             ~InSection(relevantChunks[k], req.sectionName)) =>
       /\ pc = "done"
       /\ requested = <<>>
       /\ attempts = <<>>
       /\ result.status = "returned"
       /\ result.value = <<"Section not found">>

\* improveSection retrieved chunks of the file, none of the section asked for
C37_Witness ==
  /\ req.op = "improve"
  /\ pc = "done"
  /\ relevantChunks # <<>>
  /\ result.value = <<"Section not found">>
  /\ requested = <<>>

(***************************************************************************)
(* QuerySpec: the corpus-wide branch of chatWithPDF with the vectors in    *)
(* hand: getQueryEmbedding, searchSimilar(queryEmbedding, 5), and the      *)
(* hand-over of the hits to generateResponse.                              *)
(***************************************************************************)
\* a fallback of zeros
QueryFallback_Zeros ==
  [isArray |-> TRUE, entries |-> [k \in 1..fallbackSize |-> 0]]

\* new Array(384).fill(0.1) of getEmbedding; entries are written in tenths
QueryFallback ==
  [isArray |-> TRUE, entries |-> [k \in 1..fallbackSize |-> 1]]

\* how the capability may answer featureExtraction for one text: an array
\* whose first element is the vector, a flat array of numbers, a value that
\* is not an array, a rejection, no answer within the timeout
QueryReplies ==
  { [kind |-> "nested", entries |-> v] :
      v \in UNION { VectorsOfLen(n) : n \in 1..MaxVectorLen } }
  \cup { [kind |-> k, entries |-> <<>>] :
           k \in {"flat", "object", "error", "timeout"} }

\* getEmbedding: response[0] of an array, the response itself otherwise,
\* the fallback vector when the request rejects or times out
getEmbedding(reply) ==
  CASE reply.kind \in {"error", "timeout"} -> QueryFallback
    [] reply.kind = "nested" -> [isArray |-> TRUE, entries |-> reply.entries]
    [] OTHER -> [isArray |-> FALSE, entries |-> <<>>]

\* the indexes the query may run against
QueryStores ==
  { [points |-> {}, uploads |-> 0, docs |-> <<>>],
    [points |-> storeEmbeddings(chunkAndEmbed(DocA, 1), 1), uploads |-> 1,
     docs |-> <<DocA>>],
    [points |-> storeEmbeddings(chunkAndEmbed(DocB, 1), 1), uploads |-> 1,
     docs |-> <<DocB>>],
    [points |-> storeEmbeddings(chunkAndEmbed(DocA, 1), 1)
                  \cup storeEmbeddings(chunkAndEmbed(DocB, 2), 2),
     uploads |-> 2, docs |-> <<DocA, DocB>>] }

QueryInit ==
  /\ sArgs = [queryEmbedding |-> [isArray |-> FALSE, entries |-> <<>>],
              limit |-> 5, filter |-> NoFilter,
              reply |-> [kind |-> "none", entries |-> <<>>]]
  /\ sOut = NoOutcome
  /\ sPc = "getQueryEmbedding"
  /\ \E store \in QueryStores :
       /\ points = store.points
       /\ uploads = store.uploads
       /\ docs = store.docs
  /\ CreateIdle
  /\ UploadIdle
  /\ ChunkIdle
  /\ DetectIdle
  /\ RequestIdle
  /\ ServiceIdle

\* embeddingService.getQueryEmbedding(query) settles
GetQueryEmbeddingSettles ==
  /\ sPc = "getQueryEmbedding"
  /\ \E reply \in QueryReplies :
       sArgs' = [sArgs EXCEPT !.queryEmbedding = getEmbedding(reply),
                              !.reply = reply]
  /\ sPc' = "input"
  /\ UNCHANGED <<sOut, createVars, uploadVars, chunkVars, detectVars,
                 storeVars, reqVars, serviceVars>>

\* chatWithPDF after searchSimilar: the error is rethrown as 'Chat failed',
\* or buildContext and generateResponse get the hits
HandOverHits ==
  /\ sPc = "searched"
  /\ sPc' = "done"
  /\ IF sOut.status = "threw"
     THEN /\ result' = Raised(ChatFailed([kind |-> "index", model |-> 0,
                                          wrapped |-> FALSE]))
          /\ pc' = "done"
          /\ UNCHANGED <<relevantChunks, context, cand>>
     ELSE /\ relevantChunks' = sOut.value
          /\ context' = buildContext(sOut.value, NoFile, FALSE, Null)
          /\ pc' = "request"
          /\ cand' = 1
          /\ UNCHANGED result
  /\ UNCHANGED <<req, requested, attempts, calls, timer, sArgs, sOut,
                 createVars, uploadVars, chunkVars, detectVars, storeVars,
                 serviceVars>>

QueryNext ==
  \/ GetQueryEmbeddingSettles
  \/ SearchSimilarSkips
  \/ SearchSimilarSearches
  \/ SearchSimilarFails
  \/ HandOverHits

QuerySpec == QueryInit /\ [][QueryNext]_vars

\* the query embedding failed or timed out
QueryEmbeddingFailed ==
  /\ "reply" \in DOMAIN sArgs
  /\ sArgs.reply.kind \in {"error", "timeout"}

\* C36: in corpus-wide chat a failed or timed-out query embedding yields
\* the 384-entry all-0.1 vector, which the zero-vector guard of
\* searchSimilar does not reject: the search is issued with it and its
\* results are handed to the model.
C36_FallbackEmbeddingStillSearches ==
  QueryEmbeddingFailed =>
    /\ sArgs.queryEmbedding.isArray
    /\ Len(sArgs.queryEmbedding.entries) = 384
    /\ \A k \in 1..384 : sArgs.queryEmbedding.entries[k] = 1
    /\ sPc \in {"searched", "done"} => sOut.searchIssued
    /\ (sPc = "done" /\ sOut.status = "returned") =>
         /\ relevantChunks = sOut.value
         /\ pc = "request"
         /\ result = Pending

\* the embedding timed out and the hits of the search went to the model
C36_Witness ==
  /\ QueryEmbeddingFailed
  /\ sArgs.reply.kind = "timeout"
  /\ sPc = "done"
  /\ sOut.status = "returned"
  /\ Len(relevantChunks) = 5
  /\ pc = "request"

(***************************************************************************)
(* LateSpec: one fallback invocation in which the request of a candidate   *)
(* that lost the race against its timer is still answered later.           *)
(***************************************************************************)
\* the candidates of this invocation whose timer fired before their answer
TimedOut ==
  { attempts[k].model :
      k \in { a \in DOMAIN attempts : attempts[a].outcome = "timeout" } }

\* a late answer that is taken as the result
LateResult_Adopted(current, i, shape) ==
  IF shape = "ok"
  THEN Returned(SuccessValue(req.op, i), i, Len(relevantChunks), FALSE, Null)
  ELSE current

\* Promise.race([request, timeoutPromise]) has settled with the timeout:
\* nothing awaits the request any more, its answer changes no result
LateResult(current, i, shape) == current

LateInit ==
  /\ \E store \in QueryStores :
       /\ points = store.points
       /\ uploads = store.uploads
       /\ docs = store.docs
  /\ RequestIdle
  /\ ServiceIdle
  /\ PipelineIdle
  /\ ChunkIdle
  /\ DetectIdle

\* the answer of a candidate whose timer had fired arrives
LateResponseArrives ==
  /\ \E i \in TimedOut \ late, shape \in ResponseShapes :
       /\ late' = late \cup {i}
       /\ result' = LateResult(result, i, shape)
  /\ UNCHANGED <<req, pc, cand, requested, attempts, calls, relevantChunks,
                 context, timer, collectionVars, indexVars, messageVars,
                 middleware, parseVars, storeVars, chunkVars, detectVars,
                 pipelineVars>>

LateNext ==
  \/ StartChat
  \/ StartFollowUp
  \/ StartAnalyze
  \/ StartImprove
  \/ RequestCandidate
  \/ CompletionResolves
  \/ CompletionRejects
  \/ FetchResolves
  \/ FetchRejects
  \/ BodyResolves
  \/ BodyRejects
  \/ TimerFires
  \/ LateResponseArrives

LateSpec == LateInit /\ [][LateNext]_vars

MaxRequests == 2

\* the statuses a route handler answers with
HandlerStatuses == {200, 500}

\* the middleware has run for a request and called next()
NewRequest ==
  [ handler      |-> "running",
    aborted      |-> FALSE,
    responseSent |-> FALSE,
    headersSent  |-> FALSE,
    connection   |-> "open",
    timeout      |-> "armed",
    status       |-> 0 ]

SignalInit ==
  /\ middleware = <<>>
  /\ LateIdle
  /\ ParseIdle
  /\ SectionIdle
  /\ CollectionIdle
  /\ JobsIdle
  /\ MessagesIdle
  /\ RequestIdle
  /\ StoreIdle
  /\ PipelineIdle
  /\ ChunkIdle
  /\ DetectIdle

SignalUnchanged ==
  UNCHANGED <<late, parseVars, collectionVars, indexVars, messageVars,
              reqVars, storeVars, pipelineVars, chunkVars, detectVars>>

\* clearTimeout(timeout): a timeout that has fired stays fired
clearTimeout(t) == IF t = "armed" THEN "cleared" ELSE t

\* a close handler that aborts whether or not the response finished
CloseAborts_Always(r) == TRUE

\* res.on("close"): if (!responseSent) controller.abort()
CloseAborts(r) == ~r.responseSent

\* a request reaches the middleware
RequestArrives ==
  /\ Len(middleware) < MaxRequests
  /\ middleware' = Append(middleware, NewRequest)
  /\ SignalUnchanged

\* the handler sends its response: res.status(..).json(..) sets headersSent;
\* when the 408 has been sent before, the second send throws and nothing
\* more goes out
HandlerResponds ==
  /\ \E i \in 1..Len(middleware), st \in HandlerStatuses :
       /\ middleware[i].handler = "running"
       /\ middleware' =
            [middleware EXCEPT ![i] =
               IF middleware[i].headersSent
               THEN [@ EXCEPT !.handler = "ended"]
               ELSE [@ EXCEPT !.handler = "ended",
                              !.headersSent = TRUE,
                              !.status = st]]
  /\ SignalUnchanged

\* res "finish": the response has been handed to the open connection;
\* responseSent = true and clearTimeout(timeout)
ResponseFinishes ==
  /\ \E i \in 1..Len(middleware) :
       /\ middleware[i].headersSent
       /\ ~middleware[i].responseSent
       /\ middleware[i].connection = "open"
       /\ middleware' =
            [middleware EXCEPT ![i] =
               [@ EXCEPT !.responseSent = TRUE,
                         !.timeout = clearTimeout(@)]]
  /\ SignalUnchanged

\* res "close": the connection is gone, before or after the response
ConnectionCloses ==
  /\ \E i \in 1..Len(middleware) :
       /\ middleware[i].connection = "open"
       /\ middleware' =
            [middleware EXCEPT ![i] =
               [@ EXCEPT !.connection = "closed",
                         !.aborted = @ \/ CloseAborts(middleware[i]),
                         !.timeout = clearTimeout(@)]]
  /\ SignalUnchanged

\* the setTimeout callback runs: if (!res.headersSent) abort and send 408
TimeoutFires ==
  /\ \E i \in 1..Len(middleware) :
       /\ middleware[i].timeout = "armed"
       /\ middleware' =
            [middleware EXCEPT ![i] =
               IF middleware[i].headersSent
               THEN [@ EXCEPT !.timeout = "fired"]
               ELSE [@ EXCEPT !.timeout = "fired",
                              !.aborted = TRUE,
                              !.headersSent = TRUE,
                              !.status = 408]]
  /\ SignalUnchanged

SignalNext ==
  \/ RequestArrives
  \/ HandlerResponds
  \/ ResponseFinishes
  \/ ConnectionCloses
  \/ TimeoutFires

SignalSpec == SignalInit /\ [][SignalNext]_vars

\* C38: a request's signal becomes aborted only when the connection closes
\* before the response has finished, or when the timeout fires while no
\* response headers have been sent (and then the 408 is sent); once a
\* response has finished with the signal not aborted, the signal is never
\* aborted afterwards, whatever the order of finish, close and timeout.
C38_AbortOnlyOnEarlyCloseOrTimeout ==
  [][\A i \in 1..Len(middleware) :
       /\ (~middleware[i].aborted /\ middleware'[i].aborted) =>
            \/ /\ middleware[i].connection = "open"
               /\ middleware'[i].connection = "closed"
               /\ ~middleware[i].responseSent
            \/ /\ middleware[i].timeout = "armed"
               /\ middleware'[i].timeout = "fired"
               /\ ~middleware[i].headersSent
               /\ middleware'[i].status = 408
       /\ (middleware[i].responseSent /\ ~middleware[i].aborted) =>
            ~middleware'[i].aborted
       /\ middleware[i].aborted => middleware'[i].aborted]_vars

\* a handler's response finished and the connection closed afterwards: the
\* signal is not aborted
C38_Witness ==
  \E i \in 1..Len(middleware) :
    /\ middleware[i].status = 200
    /\ middleware[i].responseSent
    /\ middleware[i].connection = "closed"
    /\ middleware[i].timeout = "cleared"
    /\ ~middleware[i].aborted
(***************************************************************************)
(* ParseSpec: PDFService.parsePDF and splitTextIntoPages.  A string is the *)
(* sequence of its characters; LongCaps stands for a run of headerLimit    *)
(* upper-case letters.  The layout, width, height and wordCount of a page  *)
(* are left out.                                                           *)
(***************************************************************************)

\* the characters of the text of a parsed PDF
MaxRawLen == 4

\* the page count pdfParse reports; 0 stands for 0 or undefined
MaxPages == 3

\* trimmedLine.length < 100
headerLimit == 100

LongCaps == "LONGCAPS"

RawChars == {"a", "b", "\n"}

StringsOver(chars, n) == UNION { [1..m -> chars] : m \in 0..n }

\* string.length
RECURSIVE Length(_)
Length(str) ==
  IF str = <<>> THEN 0
  ELSE (IF Head(str) = LongCaps THEN headerLimit ELSE 1) + Length(Tail(str))

\* str.split("\n"), current being the line read so far
RECURSIVE SplitNewline(_, _)
SplitNewline(str, current) ==
  IF str = <<>> THEN << current >>
  ELSE IF Head(str) = "\n"
  THEN << current >> \o SplitNewline(Tail(str), <<>>)
  ELSE SplitNewline(Tail(str), Append(current, Head(str)))

\* lines.join("\n")
RECURSIVE JoinNewline(_)
JoinNewline(lines) ==
  IF lines = <<>> THEN <<>>
  ELSE IF Len(lines) = 1 THEN lines[1]
  ELSE lines[1] \o << "\n" >> \o JoinNewline(Tail(lines))

\* a page is closed whenever it is long enough
FlushPage_AnyCount(currentLength, targetLength, made, numPages) ==
  currentLength >= targetLength

\* currentLength >= targetLength && pages.length < numPages - 1
FlushPage(currentLength, targetLength, made, numPages) ==
  /\ currentLength >= targetLength
  /\ made < numPages - 1

\* the for loop of splitTextIntoPages over the lines left
RECURSIVE SplitLoop(_, _, _, _, _, _)
SplitLoop(lines, pages, currentPage, currentLength, targetLength, numPages) ==
  IF lines = <<>> THEN [pages |-> pages, currentPage |-> currentPage]
  ELSE LET page == Append(currentPage, Head(lines))
           length == currentLength + Length(Head(lines)) + 1
       IN IF FlushPage(length, targetLength, Len(pages), numPages)
          THEN SplitLoop(Tail(lines), Append(pages, JoinNewline(page)),
                         <<>>, 0, targetLength, numPages)
          ELSE SplitLoop(Tail(lines), pages, page, length, targetLength,
                         numPages)

\* splitTextIntoPages(text, estimatedPageLength, numPages)
splitTextIntoPages(str, estimatedPageLength, numPages) ==
  LET end == SplitLoop(SplitNewline(str, <<>>), <<>>, <<>>, 0,
                       estimatedPageLength, numPages)
      withLast == IF Len(end.currentPage) > 0
                  THEN Append(end.pages, JoinNewline(end.currentPage))
                  ELSE end.pages
      padded == IF Len(withLast) < numPages
                THEN withLast \o [k \in 1..(numPages - Len(withLast)) |-> <<>>]
                ELSE withLast
  IN SubSeq(padded, 1, Min(numPages, Len(padded)))

\* data.numpages || 1
NumPagesOr1(d) == IF d.numpages = 0 THEN 1 ELSE d.numpages

\* the value parsePDF returns for what pdfParse resolved with
parsePDF(d) ==
  LET pages ==
        IF Len(d.pages) > 0
        THEN [k \in 1..Len(d.pages) |->
                [pageNumber |-> k, text |-> d.pages[k].text]]
        ELSE LET estimatedPageLength ==
                   CeilDiv(Length(d.text), NumPagesOr1(d))
                 textChunks ==
                   splitTextIntoPages(d.text, estimatedPageLength,
                                      NumPagesOr1(d))
             IN [k \in 1..Len(textChunks) |->
                   [pageNumber |-> k, text |-> textChunks[k]]]
  IN [status |-> "returned",
      totalPages |-> Len(pages),
      pages |-> pages,
      rawText |-> d.text,
      numpages |-> IF d.numpages = 0 THEN Len(pages) ELSE d.numpages]

\* data.pages: absent, or page objects whose text may be empty
PdfPages ==
  { <<>>, << [text |-> << "a" >>] >>,
    << [text |-> << "a", "\n", "b" >>], [text |-> <<>>] >> }

PdfResults ==
  [text : StringsOver(RawChars, MaxRawLen), numpages : 0..MaxPages,
   pages : PdfPages]

ParseInit ==
  /\ pdfData \in PdfResults
  /\ parsedData = NotCalled
  /\ SectionIdle
  /\ LateIdle
  /\ MiddlewareIdle
  /\ CollectionIdle
  /\ JobsIdle
  /\ MessagesIdle
  /\ RequestIdle
  /\ StoreIdle
  /\ PipelineIdle
  /\ ChunkIdle
  /\ DetectIdle

ParseUnchanged ==
  UNCHANGED <<pdfData, rawText, identified, late, middleware,
              collectionVars, indexVars, messageVars, reqVars, storeVars,
              pipelineVars, chunkVars, detectVars>>

\* pdfParse resolves and parsePDF returns
PdfParseResolves ==
  /\ parsedData = NotCalled
  /\ parsedData' = parsePDF(pdfData)
  /\ ParseUnchanged

\* pdfParse rejects: throw new Error(`PDF parsing failed: ...`)
PdfParseRejects ==
  /\ parsedData = NotCalled
  /\ parsedData' = [status |-> "threw"]
  /\ ParseUnchanged

ParseNext ==
  \/ PdfParseResolves
  \/ PdfParseRejects

ParseSpec == ParseInit /\ [][ParseNext]_vars

\* the lines of the given pages, page after page
RECURSIVE PageLines(_)
PageLines(pages) ==
  IF pages = <<>> THEN <<>>
  ELSE SplitNewline(Head(pages).text, <<>>) \o PageLines(Tail(pages))

\* parsePDF took the fallback branch
FallbackBranch ==
  /\ parsedData.status = "returned"
  /\ Len(pdfData.pages) = 0

\* C32: parsePDF returns pages whose pageNumber is their 1-based position
\* (1..totalPages); in the fallback branch there are exactly numPages pages,
\* the last ones empty padding when the text is short, and the lines of the
\* pages before the padding are exactly the lines of the source text, each
\* once and in source order.
C32_PagesNumberedAndLinesPartitioned ==
  parsedData.status = "returned" =>
    LET pages == parsedData.pages
    IN /\ parsedData.totalPages = Len(pages)
       /\ \A k \in 1..Len(pages) : pages[k].pageNumber = k
       /\ FallbackBranch =>
            /\ Len(pages) = NumPagesOr1(pdfData)
            /\ \E pad \in 0..(Len(pages) - 1) :
                 /\ \A k \in (Len(pages) - pad + 1)..Len(pages) :
                      pages[k].text = <<>>
                 /\ PageLines(SubSeq(pages, 1, Len(pages) - pad))
                      = SplitNewline(pdfData.text, <<>>)

\* a text of two lines reported as three pages: one line on each of the
\* first two pages and an empty third page
C32_Witness ==
  /\ FallbackBranch
  /\ Len(SplitNewline(pdfData.text, <<>>)) = 2
  /\ Len(parsedData.pages) = 3
  /\ parsedData.pages[1].text # <<>>
  /\ parsedData.pages[2].text # <<>>
  /\ parsedData.pages[3].text = <<>>
(***************************************************************************)
(* SectionSpec: PDFService.identifySections.                               *)
(***************************************************************************)

\* the characters of the text handed to identifySections
MaxSectionText == 5

\* an upper-case letter, a lower-case letter, a blank, a line break and a
\* run of headerLimit upper-case letters
SectionChars == {"A", "a", " ", "\n", LongCaps}

\* the title of the section the loop starts with
Introduction == << "Introduction" >>

RECURSIVE TrimStart(_)
TrimStart(str) ==
  IF str # <<>> /\ Head(str) = " " THEN TrimStart(Tail(str)) ELSE str

\* line.trim()
Trimmed(str) == Reverse(TrimStart(Reverse(TrimStart(str))))

\* trimmedLine.toUpperCase() === trimmedLine
IsUpperCase(str) == \A k \in 1..Len(str) : str[k] # "a"

\* /^[A-Z][a-z]+(\s+[A-Z][a-z]+)*$/.test(trimmedLine), at is the place in
\* the pattern: "word" before a capital, "capital" after it, "lower" after
\* a lower-case letter, "gap" after a blank
RECURSIVE TitleCase(_, _)
TitleCase(str, at) ==
  IF str = <<>> THEN at = "lower"
  ELSE LET c == Head(str)
       IN CASE at \in {"word", "gap"} /\ c = "A" ->
                 TitleCase(Tail(str), "capital")
            [] at = "gap" /\ c = " " -> TitleCase(Tail(str), "gap")
            [] at \in {"capital", "lower"} /\ c = "a" ->
                 TitleCase(Tail(str), "lower")
            [] at = "lower" /\ c = " " -> TitleCase(Tail(str), "gap")
            [] OTHER -> FALSE

\* the section detection test of the loop
IsHeaderLine(trimmedLine) ==
  /\ Length(trimmedLine) < headerLimit
  /\ \/ IsUpperCase(trimmedLine)
     \/ TitleCase(trimmedLine, "word")

\* text.split("\n").filter((line) => line.trim())
NonBlankLines(str) ==
  SelectSeq(SplitNewline(str, <<>>), LAMBDA line : Trimmed(line) # <<>>)

\* a section is pushed whether or not it has content
EmitSection_Always(sections, currentSection) ==
  Append(sections, currentSection)

\* if (currentSection.content.length > 0) sections.push(currentSection)
EmitSection(sections, currentSection) ==
  IF Len(currentSection.content) > 0
  THEN Append(sections, currentSection)
  ELSE sections

\* the for loop of identifySections over the lines left, and the push after
\* it
RECURSIVE IdentifyLoop(_, _, _)
IdentifyLoop(lines, sections, currentSection) ==
  IF lines = <<>> THEN EmitSection(sections, currentSection)
  ELSE LET trimmedLine == Trimmed(Head(lines))
       IN IF IsHeaderLine(trimmedLine)
          THEN IdentifyLoop(Tail(lines),
                            EmitSection(sections, currentSection),
                            [title |-> trimmedLine, content |-> <<>>])
          ELSE IdentifyLoop(Tail(lines), sections,
                            [currentSection EXCEPT
                               !.content = Append(@, trimmedLine)])

identifySections(str) ==
  IdentifyLoop(NonBlankLines(str), <<>>,
               [title |-> Introduction, content |-> <<>>])

SectionInit ==
  /\ rawText \in StringsOver(SectionChars, MaxSectionText)
  /\ identified = NotCalled
  /\ ParseIdle
  /\ LateIdle
  /\ MiddlewareIdle
  /\ CollectionIdle
  /\ JobsIdle
  /\ MessagesIdle
  /\ RequestIdle
  /\ StoreIdle
  /\ PipelineIdle
  /\ ChunkIdle
  /\ DetectIdle

\* identifySections(text) returns
IdentifySections ==
  /\ identified = NotCalled
  /\ identified' = [status |-> "returned",
                    sections |-> identifySections(rawText)]
  /\ UNCHANGED <<rawText, pdfData, parsedData, late, middleware,
                 collectionVars, indexVars, messageVars, reqVars, storeVars,
                 pipelineVars, chunkVars, detectVars>>

SectionNext == IdentifySections

SectionSpec == SectionInit /\ [][SectionNext]_vars

\* the non-blank lines of the source text, trimmed
SourceLines ==
  LET lines == NonBlankLines(rawText)
  IN [k \in 1..Len(lines) |-> Trimmed(lines[k])]

\* the position of the nearest header line before position i, 0 if none
OwnerOf(i) ==
  LET before == { j \in 1..(i - 1) : IsHeaderLine(SourceLines[j]) }
  IN IF before = {} THEN 0
     ELSE CHOOSE j \in before : \A h \in before : h <= j

\* the title of the section that owns position i
OwnerTitle(i) == IF OwnerOf(i) = 0 THEN Introduction ELSE SourceLines[OwnerOf(i)]

\* the non-header lines from position i on, each with its owner's title
RECURSIVE ExpectedContent(_)
ExpectedContent(i) ==
  IF i > Len(SourceLines) THEN <<>>
  ELSE (IF IsHeaderLine(SourceLines[i]) THEN <<>>
        ELSE << [title |-> OwnerTitle(i), line |-> SourceLines[i]] >>)
       \o ExpectedContent(i + 1)

\* the content lines of the given sections, each with its section's title
RECURSIVE EmittedContent(_)
EmittedContent(sections) ==
  IF sections = <<>> THEN <<>>
  ELSE [k \in 1..Len(Head(sections).content) |->
          [title |-> Head(sections).title, line |-> Head(sections).content[k]]]
       \o EmittedContent(Tail(sections))

\* C33: identifySections partitions the non-blank lines: every non-header
\* line appears exactly once, in source order, in the content of the section
\* opened by the nearest preceding header (or of the default first section);
\* a header line never appears in content; no emitted section has empty
\* content.
C33_SectionsPartitionLines ==
  identified.status = "returned" =>
    LET sections == identified.sections
    IN /\ EmittedContent(sections) = ExpectedContent(1)
       /\ Len(sections) =
            Cardinality({ OwnerOf(i) : i \in { j \in 1..Len(SourceLines) :
                                                 ~IsHeaderLine(SourceLines[j]) } })
       /\ \A k \in 1..Len(sections) :
            /\ Len(sections[k].content) > 0
            /\ \A m \in 1..Len(sections[k].content) :
                 ~IsHeaderLine(sections[k].content[m])

\* a line before the first header and a line after it: the default section
\* and the header's section, one line each
C33_Witness ==
  /\ identified.status = "returned"
  /\ Len(identified.sections) = 2
  /\ identified.sections[1].title = Introduction
  /\ identified.sections[2].title = << "A" >>
  /\ Len(SourceLines) = 3
====
